---- MODULE Spec2Model ----
(***************************************************************************)
(* Build cache of go-cache-plugin (package gobuild): S3Cache.Get and       *)
(* S3Cache.Put over a local stage (cachedir.Dir) and an S3 bucket reached  *)
(* through s3util.Client, with the write-behind upload tasks started       *)
(* through a taskgroup throttle.                                           *)
(* Module cache (package modproxy): S3Cacher.Get, Put and Close.  Reverse  *)
(* proxy (package revproxy): Server.ServeHTTP over its memory cache, its   *)
(* local directory and the bucket, and hostMatchesTarget.                  *)
(* CONNECT bridge (Connector): ServeHTTP, push, Accept and Close.          *)
(* s3util.ETagReader: Read and ETag.                                       *)
(*                                                                         *)
(* Strings are sequences of one-character strings, so that id[:2],         *)
(* strings.Fields, strconv.ParseInt and fmt.Sprintf("%s %d") are computed  *)
(* as the code computes them.  MD5 is idealised as an injective digest.    *)
(***************************************************************************)
EXTENDS Integers, Sequences, FiniteSets, Bags, TLC

VARIABLES
    world,     \* "toolchain": only this engine writes the bucket and ids are
               \* well formed; "shared": the bucket holds records written by
               \* others and ids are arbitrary strings
    localAct,  \* local stage, action id -> [out]
    localObj,  \* local stage, output id -> [body, mtime]
    remote,    \* the bucket, key -> [data, etag]
    puts,      \* bag of the Put calls in flight, each with its upload task
    metrics,   \* the expvar counters of the cache
    ret,       \* what the call or task that ended last returned and met
    calls,     \* the numbers of Put and Get calls made so far
    putOuts,   \* action id -> the output ids Put has been called with
    uploaded,  \* the objects of the upload tasks that completed both stages
    closing,   \* the Close call in progress, if any
    modLocal,  \* module cache: local directory, path -> bytes
    modTasks,  \* module cache: bag of the Put calls in flight with their tasks
    modErr,    \* module cache: the task group holds the error of a task
    modMetrics, \* module cache: the expvar counters
    targets,   \* reverse proxy: Server.Targets
    pMem,      \* reverse proxy: memory cache, hash -> [header, body, expires]
    pLocal,    \* reverse proxy: local directory, path -> cache object
    pTasks,    \* reverse proxy: bag of the upload tasks in flight
    now,       \* reverse proxy: the clock, in seconds
    fetched,   \* reverse proxy: the responses upstream has given so far
    reqs,      \* reverse proxy: the number of requests served so far
    connector, \* CONNECT bridge: [stopped, queue] of the Connector
    handlers,  \* CONNECT bridge: the calls of Connector.ServeHTTP
    etr,       \* the ETagReader in use, if any
    pMetrics,  \* reverse proxy: the expvar counters
    sema,      \* module cache: the slots of c.sema that are held
    gets       \* module cache: the calls of S3Cacher.Get in flight

\* The state of the module cache, which the build cache leaves alone.
modVars == <<modLocal, modTasks, modErr, modMetrics>>
\* The state of the reverse proxy.
proxyVars == <<targets, pMem, pLocal, pTasks, now, fetched, reqs>>
semaVars == <<sema, gets>>
restVars == <<connector, handlers, etr, pMetrics, semaVars>>
otherCaches == <<modVars, proxyVars, restVars>>

vars == <<world, localAct, localObj, remote, puts, metrics, ret, calls,
          putOuts, uploaded, closing, modVars, proxyVars, restVars>>

-----------------------------------------------------------------------------
(* Bounds of the model *)

MaxPuts == 2
MaxGets == 1

(* Configuration of the cache *)

UploadConcurrency == 1
MinUploadSize == 1
KeyPrefix == <<"p">>

-----------------------------------------------------------------------------
(* Strings *)

A1 == <<"a", "b", "1">>
A2 == <<"a", "b", "2">>
O1 == <<"c", "d", "1">>
O2 == <<"c", "d", "2">>
O3 == <<"c", "d", "3">>
ShortA == <<"a">>
ShortO == <<"c">>

Digits == <<"0", "1", "2", "3", "4", "5", "6", "7", "8", "9">>
IsDigit(c) == \E i \in 1..10 : Digits[i] = c
DigitVal(c) == (CHOOSE i \in 1..10 : Digits[i] = c) - 1
IsSpace(c) == c \in {" ", "\n", "\t"}

\* strings.Fields: the maximal runs of non-space characters of s.
RECURSIVE FieldsFrom(_, _, _)
FieldsFrom(s, i, cur) ==
    IF i > Len(s)
    THEN IF cur = <<>> THEN <<>> ELSE <<cur>>
    ELSE IF IsSpace(s[i])
         THEN IF cur = <<>>
              THEN FieldsFrom(s, i + 1, <<>>)
              ELSE <<cur>> \o FieldsFrom(s, i + 1, <<>>)
         ELSE FieldsFrom(s, i + 1, Append(cur, s[i]))

Fields(s) == FieldsFrom(s, 1, <<>>)

\* The value of a run of decimal digits.
RECURSIVE DigitsVal(_, _)
DigitsVal(s, acc) ==
    IF s = <<>> THEN acc
    ELSE DigitsVal(Tail(s), acc * 10 + DigitVal(Head(s)))

\* strconv.ParseInt(s, 10, 64): an optional sign, then one or more digits.
\* (The records of the model are short, so the int64 range is never left.)
ParseInt(s) ==
    LET signed == s # <<>> /\ Head(s) \in {"+", "-"}
        ds     == IF signed THEN Tail(s) ELSE s
    IN IF ds = <<>> \/ \E i \in 1..Len(ds) : ~IsDigit(ds[i])
       THEN [ok |-> FALSE, val |-> 0]
       ELSE [ok |-> TRUE,
             val |-> IF signed /\ Head(s) = "-"
                     THEN 0 - DigitsVal(ds, 0) ELSE DigitsVal(ds, 0)]

\* fmt.Sprintf("%d", n)
RECURSIVE NatDigits(_)
NatDigits(n) ==
    IF n < 10 THEN <<Digits[n + 1]>>
    ELSE Append(NatDigits(n \div 10), Digits[(n % 10) + 1])

FormatInt(n) == IF n < 0 THEN <<"-">> \o NatDigits(0 - n) ELSE NatDigits(n)

\* The record without the separating space ("%s%d").
FormatActionNoSpace(outputID, mtime) == outputID \o FormatInt(mtime)

\* fmt.Sprintf("%s %d", outputID, mtime.UnixNano())
FormatAction(outputID, mtime) == outputID \o <<" ">> \o FormatInt(mtime)

\* parseAction taking the first two of two or more fields.
parseActionLoose(data) ==
    LET fs == Fields(data)
    IN IF Len(fs) < 2
       THEN [err |-> "invalid action record", outputID |-> <<>>, mtime |-> 0]
       ELSE LET ts == ParseInt(fs[2])
            IN IF ~ts.ok
               THEN [err |-> "invalid timestamp", outputID |-> <<>>, mtime |-> 0]
               ELSE [err |-> "", outputID |-> fs[1], mtime |-> ts.val]

\* parseAction
parseAction(data) ==
    LET fs == Fields(data)
    IN IF Len(fs) # 2
       THEN [err |-> "invalid action record", outputID |-> <<>>, mtime |-> 0]
       ELSE LET ts == ParseInt(fs[2])
            IN IF ~ts.ok
               THEN [err |-> "invalid timestamp", outputID |-> <<>>, mtime |-> 0]
               ELSE [err |-> "", outputID |-> fs[1], mtime |-> ts.val]

-----------------------------------------------------------------------------
(* Keys and digests *)

\* id[:2] panics when the id has fewer than two characters.
CanShard(id) == Len(id) >= 2
Shard(id) == SubSeq(id, 1, 2)

makeKey(kind, id) == KeyPrefix \o <<kind, Shard(id), id>>
actionKey(id) == makeKey("action", id)
outputKey(id) == makeKey("output", id)

\* The etag S3 gives an object put in one part: the MD5 of its bytes,
\* idealised as an injective function of the bytes.
S3ETag(data) == <<"md5", data>>

\* The digest of a reader asked before any byte was read.
ETagUnread(bytes) == <<"md5", <<>>>>

\* ETagReader.ETag over the bytes read: lower-case hex MD5.
ETag(bytes) == <<"md5", bytes>>

-----------------------------------------------------------------------------
(* Stores: partial functions from a key to a value *)

Empty == <<>>
Has(f, k) == k \in DOMAIN f
Store(f, k, v) == [x \in (DOMAIN f) \cup {k} |-> IF x = k THEN v ELSE f[x]]

\* What PutObject leaves under a key: the bytes and S3's etag of them.
Blob(data) == [data |-> data, etag |-> S3ETag(data)]

(* Calls in flight are kept in bags: the order in which they were made is
   no state. *)

Calls(bag) == BagToSet(bag)
Called(bag, r) == bag (+) SetToBag({r})
Ended(bag, r) == bag (-) SetToBag({r})
Stepped(bag, r, r2) == Called(Ended(bag, r), r2)

-----------------------------------------------------------------------------
(* Inputs *)

\* gocache.Object values the toolchain hands to Put.  Output ids are content
\* addresses: one output id always comes with the same bytes.
Obj(a, o, b, t) == [ActionID |-> a, OutputID |-> o, Body |-> b, Size |-> Len(b), ModTime |-> t]

ToolchainObjects ==
    { Obj(A1, O1, <<1, 2>>, 7), Obj(A1, O2, <<3>>, 12), Obj(A2, O3, <<>>, -3) }

\* In the shared world ids are arbitrary strings.
SharedObjects ==
    { Obj(ShortA, O1, <<1, 2>>, 7), Obj(A2, ShortO, <<4>>, 5) }

Objects(w) ==
    IF w = "toolchain" THEN ToolchainObjects
    ELSE IF w = "shared" THEN SharedObjects ELSE {}
ActionIDs(w) ==
    IF w = "toolchain" THEN {A1, A2}
    ELSE IF w = "shared" THEN {A1, ShortA} ELSE {}

\* Action records found in a shared bucket.
OneField == <<"g", "a", "r", "b", "a", "g", "e">>
ThreeFields == O1 \o <<" ", "7", " ", "9">>
BadTimestamp == O1 \o <<" ", "x">>
ShortOutput == ShortO \o <<" ", "5">>
ExtraSpaces == <<" ">> \o O1 \o <<"\t", "+", "7", "\n">>
WellFormed == O1 \o <<" ", "7">>

ForeignRecords ==
    {OneField, ThreeFields, BadTimestamp, ShortOutput, ExtraSpaces, WellFormed}

\* A shared bucket: one foreign record under the key of A1, and for the
\* records that name O1 also the bucket that holds the blob of O1.
ForeignStores ==
    { Store(Empty, actionKey(A1), Blob(r)) : r \in ForeignRecords }
    \cup { Store(Store(Empty, actionKey(A1), Blob(r)), outputKey(O1), Blob(<<1, 2>>)) :
             r \in {ExtraSpaces, WellFormed} }

-----------------------------------------------------------------------------
(* Errors of the S3 SDK and their classification *)

\* IsNotExist without the error GetObject gives for an absent key.
IsNotExistNarrow(kind) == kind \in {"NotFound", "ErrNotExist"}

\* s3util.IsNotExist: types.NotFound, types.NoSuchKey and os.ErrNotExist.
IsNotExist(kind) == kind \in {"NotFound", "NoSuchKey", "ErrNotExist"}

\* Client.Get: GetObject under a key.  `fault` is a failure of the call that
\* is not an absence (timeout, connection error, access denied).
ClientGet(key, fault) ==
    LET sdk == IF fault THEN "other"
               ELSE IF Has(remote, key) THEN "" ELSE "NoSuchKey"
    IN IF sdk = "" THEN [err |-> "", data |-> remote[key].data]
       ELSE IF IsNotExist(sdk) THEN [err |-> "fs.ErrNotExist", data |-> <<>>]
       ELSE [err |-> sdk, data |-> <<>>]

\* PutCond taking a failed HeadObject call for a match.
HeadMatchesOnFault(key, etag, fault) ==
    fault \/ (Has(remote, key) /\ remote[key].etag = etag)

\* PutCond's HeadObject with If-Match: the error is nil only for a present key
\* whose etag matches.
HeadMatches(key, etag, fault) ==
    ~fault /\ Has(remote, key) /\ remote[key].etag = etag

-----------------------------------------------------------------------------
(* The upload throttle *)

NumCPU == 2
uploadConcurrency == IF UploadConcurrency <= 0 THEN NumCPU ELSE UploadConcurrency

Running == {"head", "putobj", "putact"}
Active ==
    LET running == {r \in Calls(puts) : r.tpc \in Running}
    IN IF running = {} THEN 0
       ELSE BagCardinality([r \in running |-> puts[r]])

\* A throttle that admits every task at once.
SlotAlways == TRUE

\* A throttle that admits a task only while two slots are left.
SlotSpare == Active + 1 < uploadConcurrency

\* The start function of taskgroup's Limit admits a task only while fewer
\* than n are active; until then the caller waits.
SlotFree == Active < uploadConcurrency

-----------------------------------------------------------------------------
(* Initial states *)

Counters == [getLocalHit |-> 0, getFaultHit |-> 0, getFaultMiss |-> 0,
             putSkipSmall |-> 0, putS3Found |-> 0, putS3Action |-> 0,
             putS3Object |-> 0, putS3Error |-> 0]

Count(name) == [metrics EXCEPT ![name] = @ + 1]

\* The counters of the module cache that tell what Put met (the totals of
\* requests and of bytes and the counters of Get are not kept).
ModCounters == [pathError |-> 0, putLocalHit |-> 0, putLocalError |-> 0,
                putS3Error |-> 0]

\* expvar.Int.Add(1) on each of the named counters that is kept.
ModCount(names) ==
    [n \in DOMAIN modMetrics |-> IF n \in names THEN modMetrics[n] + 1 ELSE modMetrics[n]]

NoRet == [op |-> "none", res |-> "none"]
NoClose == [cache |-> "none", found |-> 0]

\* The calls of Connector.ServeHTTP.  A call: where it is, its request, the
\* status it answered (0: none yet), whether the done channel of its
\* connection is closed, and how many times Accept has returned its
\* connection.
MaxConns == 2
Handlers == 1..MaxConns
NoReq == [method |-> "", host |-> <<>>, path |-> <<>>, hijack |-> "none"]
Idle == [pc |-> "idle", req |-> NoReq, status |-> 0, done |-> FALSE, taken |-> 0]

\* The expvar counters of the proxy, without the counts of bytes and the
\* counters of the upload task.
ProxyCounters ==
    [reqReceived |-> 0, reqMemoryHit |-> 0, reqLocalHit |-> 0, reqLocalMiss |-> 0,
     reqFaultHit |-> 0, reqFaultMiss |-> 0, reqForward |-> 0, rspSave |-> 0,
     rspSaveMem |-> 0, rspSaveError |-> 0, rspNotCached |-> 0]

\* No ETagReader yet.  A reader: the bytes of the reader it wraps, how many of
\* them were read, the bytes given to the caller, the bytes written to the
\* MD5 hash.
\* The callers of S3Cacher.Get, and a caller that has not called yet.
MaxGetters == 3
Getters == 1..MaxGetters
NoGet == [pc |-> "idle", name |-> <<>>, rlocal |-> "none", rremote |-> "none",
          data |-> <<>>]

NoReader == [open |-> FALSE, input |-> <<>>, pos |-> 0, out |-> <<>>, hash |-> <<>>]

InitCommon ==
    /\ localAct = Empty
    /\ localObj = Empty
    /\ puts = EmptyBag
    /\ metrics = Counters
    /\ ret = NoRet
    /\ calls = [put |-> 0, get |-> 0]
    /\ putOuts = Empty
    /\ uploaded = {}
    /\ closing = NoClose
    /\ modLocal = Empty
    /\ modTasks = EmptyBag
    /\ modErr = FALSE
    /\ modMetrics = ModCounters
    /\ pMem = Empty
    /\ pLocal = Empty
    /\ pTasks = EmptyBag
    /\ now = 0
    /\ fetched = {}
    /\ reqs = 0
    /\ connector = [stopped |-> FALSE, queue |-> <<>>]
    /\ handlers = [h \in Handlers |-> Idle]
    /\ etr = NoReader
    /\ pMetrics = ProxyCounters
    /\ sema = 0
    /\ gets = [g \in Getters |-> NoGet]

Init ==
    /\ world = "toolchain"
    /\ remote = Empty
    /\ targets = <<>>
    /\ InitCommon

InitShared ==
    /\ world = "shared"
    /\ remote \in ForeignStores
    /\ targets = <<>>
    /\ InitCommon

\* A panic ends the process: no action is enabled after one.
Panicked == ret.res = "panic"

-----------------------------------------------------------------------------
(* The local stage (cachedir.Dir) *)

\* Local.Get: a hit needs the action entry and the output file it names.
LocalHit(a) == Has(localAct, a) /\ Has(localObj, localAct[a].out)

\* Local.Put: the output file with its modification time, and the action entry.
LocalPutAct(a, o) == Store(localAct, a, [out |-> o])
LocalPutObj(o, body, mtime) == Store(localObj, o, [body |-> body, mtime |-> mtime])

-----------------------------------------------------------------------------
(* S3Cache.Put *)

\* A Put call in flight and its upload task.  pc: "start" while the call
\* waits in s.start, "done" once it has returned.  tpc: where the task is.
\* The other fields record what the task met: the opened file, the outcome
\* of the conditional put (stage1), whether the HeadObject call itself
\* failed (headFault), and whether a Put of the same object had been
\* uploaded in full when HeadObject was asked (prior).
PutRec(obj) ==
    [obj |-> obj, pc |-> "start", cancelled |-> FALSE, tpc |-> "none",
     file |-> <<>>, fmtime |-> 0, stage1 |-> "none",
     headFault |-> FALSE, prior |-> FALSE]

\* What Put returned: an error, or the disk path; and whether it started an
\* upload task.
PutRet(obj, res, task) == [op |-> "Put", obj |-> obj, res |-> res, task |-> task]

\* How a task ended: its error or nil (res), why (cause), and whether the
\* put of the action record was issued (actPut).
TaskRet(r, res, why, issued) ==
    [op |-> "Task", obj |-> r.obj, res |-> res, cause |-> why, actPut |-> issued,
     stage1 |-> r.stage1, cancelled |-> r.cancelled, file |-> r.file,
     headFault |-> r.headFault, prior |-> r.prior]

NotePut(obj) ==
    Store(putOuts, obj.ActionID,
          (IF Has(putOuts, obj.ActionID) THEN putOuts[obj.ActionID] ELSE {})
              \cup {obj.OutputID})

\* A Put without the test of the size.
forwardsSmall(obj, localErr) == ~localErr

\* A Put that goes on to the bucket whatever the local write returned.
forwardsOnError(obj, localErr) == obj.Size >= MinUploadSize

\* Put goes on to start an upload: the local write returned no error and
\* the object is not below MinUploadSize.
forwards(obj, localErr) == ~localErr /\ obj.Size >= MinUploadSize

\* Put up to the call of s.start: the local write and the size test.
Put(obj) ==
    /\ ~Panicked
    /\ calls.put < MaxPuts
    /\ obj \in Objects(world)
    /\ calls' = [calls EXCEPT !.put = @ + 1]
    /\ \E localErr \in BOOLEAN :
         IF localErr
         THEN /\ ret' = PutRet(obj, "error", FALSE)
              /\ puts' = IF forwards(obj, TRUE) THEN Called(puts, PutRec(obj)) ELSE puts
              /\ UNCHANGED <<localAct, localObj, metrics, putOuts>>
         ELSE /\ localAct' = LocalPutAct(obj.ActionID, obj.OutputID)
              /\ localObj' = LocalPutObj(obj.OutputID, obj.Body, obj.ModTime)
              /\ putOuts' = NotePut(obj)
              /\ IF ~forwards(obj, FALSE)
                 THEN /\ metrics' = Count("putSkipSmall")
                      /\ ret' = PutRet(obj, "ok", FALSE)
                      /\ puts' = puts
                 ELSE /\ puts' = Called(puts, PutRec(obj))
                      /\ UNCHANGED <<metrics, ret>>
    /\ UNCHANGED <<closing, otherCaches>>
    /\ UNCHANGED <<world, remote, uploaded>>

\* s.start(task): waits for a slot of the throttle, starts the task in its own
\* goroutine, and Put returns the disk path.
PutStart(r) ==
    /\ ~Panicked
    /\ r.pc = "start"
    /\ SlotFree
    /\ puts' = Stepped(puts, r, [r EXCEPT !.pc = "done", !.tpc = "head"])
    /\ ret' = PutRet(r.obj, "ok", TRUE)
    /\ UNCHANGED <<closing, otherCaches>>
    /\ UNCHANGED <<world, localAct, localObj, remote, metrics, calls,
                   putOuts, uploaded>>

\* The context of the request that called Put is cancelled while the upload
\* task of that Put is in flight.
Cancel(r) ==
    /\ ~Panicked
    /\ r.pc = "done"
    /\ r.tpc \in Running
    /\ ~r.cancelled
    /\ puts' = Stepped(puts, r, [r EXCEPT !.cancelled = TRUE])
    /\ UNCHANGED <<closing, otherCaches>>
    /\ UNCHANGED <<world, localAct, localObj, remote, metrics, ret, calls,
                   putOuts, uploaded>>

\* The task returns: its slot is released.  `met` is the outcome of stage 1.
TaskEnd(r, res, why, issued, met) ==
    /\ puts' = Ended(puts, r)
    /\ ret' = TaskRet([r EXCEPT !.stage1 = met], res, why, issued)
    /\ uploaded' = IF res = "ok" THEN uploaded \cup {r.obj} ELSE uploaded

\* The task goes on to its next call.
TaskStep(r, r2) ==
    /\ puts' = Stepped(puts, r, r2)
    /\ UNCHANGED <<ret, uploaded>>

\* The task going on to the action record after a failed stage 1.
Stage1Ignored(r, why) ==
    TaskStep(r, [r EXCEPT !.tpc = "putact", !.stage1 = "failed"])

\* `if err != nil { return err }` after maybePutObject: the task ends.
Stage1Failed(r, why) ==
    TaskEnd(r, "error", why, FALSE, "failed")

\* Stage 1, first half: maybePutObject opens and stats the local file, builds
\* the key, and PutCond asks HeadObject with If-Match.  The call runs under
\* sctx, which ignores the caller's cancellation.
TaskHead(r) ==
    LET o == r.obj.OutputID
        etag == ETag(r.obj.Body)
        seen == r.obj \in uploaded
    IN /\ ~Panicked
       /\ r.tpc = "head"
       /\ IF ~Has(localObj, o)
          THEN /\ Stage1Failed(r, "nofile")
               /\ metrics' = metrics
          ELSE IF ~CanShard(o)
          THEN /\ TaskEnd(r, "panic", "panic", FALSE, r.stage1)
               /\ metrics' = metrics
          ELSE \E fault \in BOOLEAN :
                 IF HeadMatches(outputKey(o), etag, fault)
                 THEN \* written = false
                      /\ TaskStep(r, [r EXCEPT !.tpc = "putact", !.stage1 = "found",
                                               !.fmtime = localObj[o].mtime,
                                               !.prior = seen])
                      /\ metrics' = Count("putS3Object")
                 ELSE /\ TaskStep(r, [r EXCEPT !.tpc = "putobj",
                                               !.file = localObj[o].body,
                                               !.fmtime = localObj[o].mtime,
                                               !.prior = seen, !.headFault = fault])
                      /\ metrics' = metrics
       /\ UNCHANGED <<closing, otherCaches>>
       /\ UNCHANGED <<world, localAct, localObj, remote, calls, putOuts>>

\* Stage 1, second half: PutCond's c.Put of the opened file, and the rest of
\* maybePutObject.  A failed call may or may not have reached the bucket.
TaskPutObject(r) ==
    LET key == outputKey(r.obj.OutputID)
    IN /\ ~Panicked
       /\ r.tpc = "putobj"
       /\ \E outcome \in {"ok", "lost", "applied"} :
            /\ remote' = IF outcome = "lost" THEN remote
                         ELSE Store(remote, key, Blob(r.file))
            /\ IF outcome = "ok"
               THEN \* written = true
                    /\ TaskStep(r, [r EXCEPT !.tpc = "putact", !.stage1 = "uploaded"])
                    /\ metrics' = Count("putS3Found")
               ELSE /\ Stage1Failed(r, "fault")
                    /\ metrics' = Count("putS3Error")
       /\ UNCHANGED <<closing, otherCaches>>
       /\ UNCHANGED <<world, localAct, localObj, calls, putOuts>>

\* Stage 2: the action record, written with S3Client.Put under ctx, the
\* context of the calling request.
TaskPutAction(r) ==
    LET a == r.obj.ActionID
        record == FormatAction(r.obj.OutputID, r.fmtime)
    IN /\ ~Panicked
       /\ r.tpc = "putact"
       /\ IF ~CanShard(a)
          THEN /\ TaskEnd(r, "panic", "panic", FALSE, r.stage1)
               /\ UNCHANGED <<remote, metrics>>
          ELSE IF r.cancelled
          THEN /\ TaskEnd(r, "error", "cancel", TRUE, r.stage1)
               /\ UNCHANGED <<remote, metrics>>
          ELSE \E outcome \in {"ok", "lost", "applied"} :
                 /\ remote' = IF outcome = "lost" THEN remote
                              ELSE Store(remote, actionKey(a), Blob(record))
                 /\ IF outcome = "ok"
                    THEN /\ TaskEnd(r, "ok", "none", TRUE, r.stage1)
                         /\ metrics' = Count("putS3Action")
                    ELSE /\ TaskEnd(r, "error", "fault", TRUE, r.stage1)
                         /\ metrics' = metrics
       /\ UNCHANGED <<closing, otherCaches>>
       /\ UNCHANGED <<world, localAct, localObj, calls, putOuts>>

-----------------------------------------------------------------------------
(* S3Cache.Get *)

\* What a read of the bucket under a key met: the key absent, the key
\* present, or a failure of the call.
Met(key, fault) ==
    IF fault THEN "fault" ELSE IF Has(remote, key) THEN "present" ELSE "absent"

\* What a Get call has met so far.  out: the output id of the parsed action
\* record.  ract, record: what the read of the action record met, and the
\* bytes it returned.  robj: what the read of the output blob met.  fault:
\* whether a failure of the disk or of S3 hit the call.  after: the objects
\* of its action id whose upload tasks had completed both stages when Get
\* was called.
GetRec(a) ==
    [a |-> a, out |-> <<>>, ract |-> "none", record |-> <<>>, robj |-> "none",
     fault |-> FALSE, after |-> {obj \in uploaded : obj.ActionID = a}]

\* What Get returned: res is "hit" with the output id and the bytes under
\* the disk path, "miss", "error" or "panic".
GetRet(g, res, out, body) ==
    [op |-> "Get", a |-> g.a, res |-> res, out |-> out, body |-> body,
     ract |-> g.ract, record |-> g.record, robj |-> g.robj,
     fault |-> g.fault, after |-> g.after]

\* The failures a Get call can meet: of Local.Get, of the two reads of S3,
\* and of Local.Put.
GetFaults == [local : BOOLEAN, act : BOOLEAN, obj : BOOLEAN, store : BOOLEAN]

\* Get returns without having written the local stage: a miss or an error.
GetEnd(g, res, counter) ==
    /\ ret' = GetRet(g, res, <<>>, <<>>)
    /\ metrics' = IF counter = "" THEN metrics ELSE Count(counter)
    /\ UNCHANGED <<localAct, localObj>>

\* Local.Put of the fetched blob under the recorded modification time, and
\* the return of Get.
GetStore(g, data, mtime, faults) ==
    /\ metrics' = Count("getFaultHit")
    /\ IF faults.store
       THEN /\ ret' = GetRet([g EXCEPT !.fault = TRUE], "error", g.out, <<>>)
            /\ UNCHANGED <<localAct, localObj>>
       ELSE /\ localAct' = LocalPutAct(g.a, g.out)
            /\ localObj' = LocalPutObj(g.out, data, mtime)
            /\ ret' = GetRet(g, "hit", g.out, localObj'[g.out].body)

\* Get reporting an absent output blob as a miss.
GetObjectMiss(g, mtime, faults) ==
    IF ~CanShard(g.out)
    THEN GetEnd(g, "panic", "")
    ELSE LET got == ClientGet(outputKey(g.out), faults.obj)
             read == [g EXCEPT !.robj = Met(outputKey(g.out), faults.obj),
                               !.fault = @ \/ faults.obj]
         IN IF got.err = "fs.ErrNotExist"
            THEN GetEnd(read, "miss", "getFaultMiss")
            ELSE IF got.err # ""
            THEN GetEnd(read, "error", "")
            ELSE GetStore(read, got.data, mtime, faults)

\* Client.Get of the output key named by the action record: every error,
\* not-found included, is returned as an error.
GetObject(g, mtime, faults) ==
    IF ~CanShard(g.out)
    THEN GetEnd(g, "panic", "")
    ELSE LET got == ClientGet(outputKey(g.out), faults.obj)
             read == [g EXCEPT !.robj = Met(outputKey(g.out), faults.obj),
                               !.fault = @ \/ faults.obj]
         IN IF got.err # ""
            THEN GetEnd(read, "error", "")
            ELSE GetStore(read, got.data, mtime, faults)

\* What Get does with the error of GetData of the action key.
ActionReadError(g, err) ==
    IF err = "fs.ErrNotExist"
    THEN GetEnd(g, "miss", "getFaultMiss")
    ELSE GetEnd(g, "error", "")

\* GetData of the action key, and parseAction of what it returns.
GetAction(g, faults) ==
    IF ~CanShard(g.a)
    THEN GetEnd(g, "panic", "")
    ELSE LET got == ClientGet(actionKey(g.a), faults.act)
             read == [g EXCEPT !.ract = Met(actionKey(g.a), faults.act),
                               !.fault = @ \/ faults.act, !.record = got.data]
         IN IF got.err # ""
            THEN ActionReadError(read, got.err)
            ELSE LET parsed == parseAction(got.data)
                 IN IF parsed.err # ""
                    THEN GetEnd(read, "error", "")
                    ELSE GetObject([read EXCEPT !.out = parsed.outputID],
                                   parsed.mtime, faults)

\* Get: the lookup in the local stage, and the fault from S3 when that is no
\* hit or fails.
Get(a) ==
    /\ ~Panicked
    /\ calls.get < MaxGets
    /\ a \in ActionIDs(world)
    /\ calls' = [calls EXCEPT !.get = @ + 1]
    /\ \E faults \in GetFaults :
         IF ~faults.local /\ LocalHit(a)
         THEN /\ ret' = GetRet(GetRec(a), "hit", localAct[a].out,
                               localObj[localAct[a].out].body)
              /\ metrics' = Count("getLocalHit")
              /\ UNCHANGED <<localAct, localObj>>
         ELSE GetAction([GetRec(a) EXCEPT !.fault = faults.local], faults)
    /\ UNCHANGED <<closing, otherCaches>>
    /\ UNCHANGED <<world, remote, puts, putOuts, uploaded>>

-----------------------------------------------------------------------------
(* The environment *)

\* The local stage is wiped (a tmpfs directory lost, a cleanup).
WipeLocal ==
    /\ ~Panicked
    /\ localAct # Empty \/ localObj # Empty
    /\ localAct' = Empty
    /\ localObj' = Empty
    /\ UNCHANGED <<closing, otherCaches>>
    /\ UNCHANGED <<world, remote, puts, metrics, ret, calls, putOuts, uploaded>>

-----------------------------------------------------------------------------
(* The module cache (package modproxy): S3Cacher *)

MaxTasks == 1
ModLocal == <<"d">>

N1 == <<"m", "1">>
N2 == <<"m", "2">>
D1 == <<1, 2>>
D2 == <<3>>

\* What the module proxy puts: a name with its bytes, and once a name with
\* other bytes.
ModFiles == {<<N1, D1>>, <<N1, D2>>, <<N2, D2>>}
ModNames == {N1, N2}

\* hashName: the SHA-256 of the name in hex, idealised as an injective table.
hashName(name) ==
    IF name = N1 THEN <<"1", "6", "0", "d">> ELSE <<"1", "6", "f", "3">>

\* S3Cacher.makeKey and the path of makePath.
modMakeKey(hash) == KeyPrefix \o <<Shard(hash), hash>>
modMakePath(hash) == ModLocal \o <<Shard(hash), hash>>

modMaxTasks == IF MaxTasks <= 0 THEN NumCPU ELSE MaxTasks

ModActive ==
    LET running == {r \in Calls(modTasks) : r.pc = "run"}
    IN IF running = {} THEN 0
       ELSE BagCardinality([r \in running |-> modTasks[r]])

ModSlotFree == ModActive < modMaxTasks

\* What Put, Get and the upload task of the module cache returned.  wrote:
\* the call wrote the local file; task: the call started an upload task.
ModPutRet(name, res, wrote, task) ==
    [op |-> "ModPut", name |-> name, res |-> res, wrote |-> wrote, task |-> task]

ModTaskRet(r, res) == [op |-> "ModTask", name |-> r.name, res |-> res]

\* rlocal, rremote: what the reads of the local file and of the bucket met.
ModGetRet(name, res, body, rlocal, rremote, wrote) ==
    [op |-> "ModGet", name |-> name, res |-> res, body |-> body,
     rlocal |-> rlocal, rremote |-> rremote, wrote |-> wrote]

\* A write that leaves a truncated file behind when it fails.
putLocalTorn(path, data, fault) ==
    IF Has(modLocal, path)
    THEN [found |-> TRUE, err |-> FALSE, local |-> modLocal]
    ELSE IF fault
    THEN [found |-> FALSE, err |-> TRUE, local |-> Store(modLocal, path, <<>>)]
    ELSE [found |-> FALSE, err |-> FALSE, local |-> Store(modLocal, path, data)]

\* A write that does not look for the file first.
putLocalAlways(path, data, fault) ==
    IF fault
    THEN [found |-> FALSE, err |-> TRUE, local |-> modLocal]
    ELSE [found |-> FALSE, err |-> FALSE, local |-> Store(modLocal, path, data)]

\* putLocal: whether os.Stat found the file, and else the outcome of
\* atomicfile.WriteAll, which leaves the data under the path or nothing.
putLocal(path, data, fault) ==
    IF Has(modLocal, path)
    THEN [found |-> TRUE, err |-> FALSE, local |-> modLocal]
    ELSE IF fault
    THEN [found |-> FALSE, err |-> TRUE, local |-> modLocal]
    ELSE [found |-> FALSE, err |-> FALSE, local |-> Store(modLocal, path, data)]

\* The failures a Put of the module cache can meet: of MkdirAll, of the
\* atomic write, and of the reopening of the written file.
ModPutFaults == [path : BOOLEAN, write : BOOLEAN, open : BOOLEAN]

\* S3Cacher.Put up to the call of c.start.
ModPut(name, data) ==
    LET path == modMakePath(hashName(name))
    IN /\ world = "module"
       /\ calls.put < MaxPuts
       /\ calls' = [calls EXCEPT !.put = @ + 1]
       /\ \E faults \in ModPutFaults :
            IF faults.path
            THEN /\ modMetrics' = ModCount({"putRequest", "pathError"})
                 /\ ret' = ModPutRet(name, "error", FALSE, FALSE)
                 /\ UNCHANGED <<modLocal, modTasks>>
            ELSE IF putLocal(path, data, faults.write).err
            THEN /\ modMetrics' = ModCount({"putRequest", "putLocalError"})
                 /\ ret' = ModPutRet(name, "error", FALSE, FALSE)
                 /\ modLocal' = putLocal(path, data, faults.write).local
                 /\ modTasks' = modTasks
            ELSE IF putLocal(path, data, faults.write).found
            THEN /\ modMetrics' = ModCount({"putRequest", "putLocalHit"})
                 /\ ret' = ModPutRet(name, "ok", FALSE, FALSE)
                 /\ UNCHANGED <<modLocal, modTasks>>
            ELSE /\ modLocal' = putLocal(path, data, faults.write).local
                 /\ IF faults.open
                    THEN /\ modMetrics' = ModCount({"putRequest", "putLocalError"})
                         /\ ret' = ModPutRet(name, "error", TRUE, FALSE)
                         /\ modTasks' = modTasks
                    ELSE /\ modMetrics' = ModCount({"putRequest"})
                         /\ modTasks' = Called(modTasks,
                                [name |-> name, data |-> data, pc |-> "start"])
                         /\ ret' = ret
       /\ UNCHANGED <<world, remote, modErr, closing>>
       /\ UNCHANGED <<localAct, localObj, puts, metrics, putOuts, uploaded, proxyVars,
                   restVars>>

\* c.start(task): waits for a slot, starts the task, and Put returns nil.
ModPutStart(r) ==
    /\ r.pc = "start"
    /\ ModSlotFree
    /\ modTasks' = Stepped(modTasks, r, [r EXCEPT !.pc = "run"])
    /\ ret' = ModPutRet(r.name, "ok", TRUE, TRUE)
    /\ UNCHANGED <<world, remote, calls, modLocal, modErr, modMetrics, closing>>
    /\ UNCHANGED <<localAct, localObj, puts, metrics, putOuts, uploaded, proxyVars,
                   restVars>>

\* The upload task: S3Client.Put of the opened file under sctx; its error is
\* counted and returned to the task group, which keeps it.
ModTask(r) ==
    /\ r.pc = "run"
    /\ modTasks' = Ended(modTasks, r)
    /\ \E outcome \in {"ok", "lost", "applied"} :
         /\ remote' = IF outcome = "lost" THEN remote
                      ELSE Store(remote, modMakeKey(hashName(r.name)), Blob(r.data))
         /\ IF outcome = "ok"
            THEN /\ ret' = ModTaskRet(r, "ok")
                 /\ UNCHANGED <<modErr, modMetrics>>
            ELSE /\ ret' = ModTaskRet(r, "error")
                 /\ modErr' = TRUE
                 /\ modMetrics' = ModCount({"putS3Error"})
    /\ UNCHANGED <<world, calls, modLocal, closing>>
    /\ UNCHANGED <<localAct, localObj, puts, metrics, putOuts, uploaded, proxyVars,
                   restVars>>

\* The failures a Get of the module cache can meet: of MkdirAll, of the
\* reads of the local file, of the read of the bucket, of the atomic write.
ModGetFaults == [path : BOOLEAN, read : BOOLEAN, s3 : BOOLEAN, write : BOOLEAN]

\* What a read of the local file met.
ModMetLocal(path, fault) ==
    IF ~Has(modLocal, path) THEN "absent" ELSE IF fault THEN "fault" ELSE "present"

\* S3Cacher.Get after a miss of the local file: the fault from the bucket,
\* putLocal of what it holds, and the reading back of the local file.
ModGetFault(name, path, faults, counters) ==
    LET key == modMakeKey(hashName(name))
        rlocal == ModMetLocal(path, faults.read)
        rremote == Met(key, faults.s3)
        got == ClientGet(key, faults.s3)
    IN IF got.err = "fs.ErrNotExist"
       THEN /\ modMetrics' = ModCount(counters \cup {"getFaultMiss"})
            /\ ret' = ModGetRet(name, "notfound", <<>>, rlocal, rremote, FALSE)
            /\ modLocal' = modLocal
       ELSE IF got.err # ""
       THEN /\ modMetrics' = ModCount(counters \cup {"getFaultError"})
            /\ ret' = ModGetRet(name, "error", <<>>, rlocal, rremote, FALSE)
            /\ modLocal' = modLocal
       ELSE LET put == putLocal(path, got.data, faults.write)
            IN /\ modLocal' = put.local
               /\ IF put.err
                  THEN /\ modMetrics' = ModCount(counters \cup {"getFaultHit", "putLocalError"})
                       /\ ret' = ModGetRet(name, "error", <<>>, rlocal, rremote, FALSE)
                  ELSE IF put.found
                  THEN \* the file that could not be read; nor can it be now
                       /\ modMetrics' = ModCount(counters \cup {"getFaultHit"})
                       /\ ret' = ModGetRet(name, "error", <<>>, rlocal, rremote, FALSE)
                  ELSE /\ modMetrics' = ModCount(counters \cup {"getFaultHit"})
                       /\ ret' = ModGetRet(name, "ok", modLocal'[path], rlocal, rremote, TRUE)

\* S3Cacher.Get
ModGet(name) ==
    LET path == modMakePath(hashName(name))
    IN /\ world = "module"
       /\ calls.get < MaxGets
       /\ calls' = [calls EXCEPT !.get = @ + 1]
       /\ \E faults \in ModGetFaults :
            IF faults.path
            THEN /\ modMetrics' = ModCount({"getRequest", "pathError"})
                 /\ ret' = ModGetRet(name, "error", <<>>, "none", "none", FALSE)
                 /\ modLocal' = modLocal
            ELSE IF ModMetLocal(path, faults.read) = "present"
            THEN /\ modMetrics' = ModCount({"getRequest", "getLocalHit"})
                 /\ ret' = ModGetRet(name, "ok", modLocal[path], "present", "none", FALSE)
                 /\ modLocal' = modLocal
            ELSE ModGetFault(name, path, faults,
                     {"getRequest",
                      IF Has(modLocal, path) THEN "getLocalError" ELSE "getLocalMiss"})
       /\ UNCHANGED <<world, remote, modTasks, modErr, closing>>
       /\ UNCHANGED <<localAct, localObj, puts, metrics, putOuts, uploaded, proxyVars,
                   restVars>>

\* The local directory of the module cache is wiped.
ModWipe ==
    /\ world = "module"
    /\ modLocal # Empty
    /\ modLocal' = Empty
    /\ UNCHANGED <<world, remote, ret, calls, modTasks, modErr, modMetrics, closing>>
    /\ UNCHANGED <<localAct, localObj, puts, metrics, putOuts, uploaded, proxyVars,
                   restVars>>

-----------------------------------------------------------------------------
(* Close of the two caches *)

\* Group.Wait returning although tasks are active.
WaitSkipped(active) == TRUE

\* Group.Wait returns when no task of the group is active.
WaitDone(active) == active = 0

\* What Close returned, the number of tasks it found running when it was
\* called, and the number of tasks running when it returned.
CloseRet(res, running) ==
    [op |-> "Close", cache |-> closing.cache, res |-> res,
     found |-> closing.found, running |-> running]

\* S3Cache.Close is called and waits in s.push.Wait.
Close ==
    /\ ~Panicked
    /\ world = "toolchain"
    /\ closing = NoClose
    /\ closing' = [cache |-> "build", found |-> Active]
    /\ UNCHANGED <<world, remote, ret, calls, modVars>>
    /\ UNCHANGED <<localAct, localObj, puts, metrics, putOuts, uploaded, proxyVars,
                   restVars>>

\* s.push.Wait returns: its error is dropped and Close returns nil.
CloseReturn ==
    /\ closing.cache = "build"
    /\ WaitDone(Active)
    /\ closing' = NoClose
    /\ ret' = CloseRet("ok", Active)
    /\ UNCHANGED <<world, remote, calls, modVars>>
    /\ UNCHANGED <<localAct, localObj, puts, metrics, putOuts, uploaded, proxyVars,
                   restVars>>

\* S3Cacher.Close is called and waits in c.tasks.Wait.
ModClose ==
    /\ world = "module"
    /\ closing = NoClose
    /\ closing' = [cache |-> "module", found |-> ModActive]
    /\ UNCHANGED <<world, remote, ret, calls, modVars>>
    /\ UNCHANGED <<localAct, localObj, puts, metrics, putOuts, uploaded, proxyVars,
                   restVars>>

\* c.tasks.Wait returns the error the group holds, and Close returns it.
ModCloseReturn ==
    /\ closing.cache = "module"
    /\ WaitDone(ModActive)
    /\ closing' = NoClose
    /\ ret' = CloseRet(IF modErr THEN "error" ELSE "ok", ModActive)
    /\ modErr' = FALSE
    /\ UNCHANGED <<world, remote, calls, modLocal, modTasks, modMetrics>>
    /\ UNCHANGED <<localAct, localObj, puts, metrics, putOuts, uploaded, proxyVars,
                   restVars>>

-----------------------------------------------------------------------------
(* Reverse proxy (package revproxy): the targets *)

HasPrefix(s, p) == Len(s) >= Len(p) /\ SubSeq(s, 1, Len(p)) = p
HasSuffix(s, p) == Len(s) >= Len(p) /\ SubSeq(s, Len(s) - Len(p) + 1, Len(s)) = p
\* strings.TrimPrefix: s without the prefix p, or s when p is not a prefix.
TrimPrefix(s, p) == IF HasPrefix(s, p) THEN SubSeq(s, Len(p) + 1, Len(s)) ELSE s

\* The closure given to slices.ContainsFunc: the target s matches the host.
TargetMatches(s, host) ==
    \/ s = host
    \/ /\ HasPrefix(s, <<"*">>)
       /\ LET tail == TrimPrefix(s, <<"*">>)
          IN  HasSuffix(host, tail) \/ host = TrimPrefix(tail, <<".">>)

\* A check that lets every host through.
hostMatchesAny(host, ts) == TRUE

hostMatchesTarget(host, ts) == \E i \in DOMAIN ts : TargetMatches(ts[i], host)

\* Host names, each label shortened to one letter: foo.com, *.bar.com (the
\* targets of TestCheckTarget), and targets as the --revproxy flag, split at
\* commas and not validated, can give them.
FooCom == <<"f", ".", "c">>
StarBarCom == <<"*", ".", "b", ".", "c">>
StarNoDot == <<"*", "b", ".", "c">>
BareStar == <<"*">>
TestTargets == <<FooCom, StarBarCom>>
TargetForms == {FooCom, StarBarCom, StarNoDot, BareStar, <<>>}
TargetLists ==
    {<<>>} \cup {<<t>> : t \in TargetForms}
           \cup {<<t, u>> : t \in TargetForms, u \in TargetForms}

\* nonesuch.org, foo.com, other.foo.com, bar.com, other.bar.com,
\* some.other.bar.com, xbar.com, .bar.com and the empty host.
BarCom == <<"b", ".", "c">>
Hosts ==
    {<<>>, <<"n", ".", "o">>, FooCom, <<"o", ".", "f", ".", "c">>, BarCom,
     <<"o", ".", "b", ".", "c">>, <<"s", ".", "o", ".", "b", ".", "c">>,
     <<"x", "b", ".", "c">>, <<".", "b", ".", "c">>}

\* One call of hostMatchesTarget(host, targets).
CheckTarget(host) ==
    /\ world = "target"
    /\ ret' = [op |-> "hostMatchesTarget", host |-> host,
               res |-> hostMatchesTarget(host, targets)]
    /\ UNCHANGED <<world, localAct, localObj, remote, puts, metrics, calls,
                   putOuts, uploaded, closing, modVars, restVars>>
    /\ UNCHANGED proxyVars

-----------------------------------------------------------------------------
(* Reverse proxy: headers and cache objects *)

\* An http.Header as a store from a header name to its value; names and
\* values are strings.  Header.Get gives "" for a name that is not there.
HCacheControl == <<"Cache-Control">>
HContentType == <<"Content-Type">>
HDate == <<"Date">>
HEtag == <<"Etag">>
HServer == <<"Server">>
HXCache == <<"X-Cache">>
HXCacheId == <<"X-Cache-Id">>

hGet(h, name) == IF Has(h, name) THEN h[name] ELSE <<>>
hSet(h, name, value) == Store(h, name, value)
\* Header.Add: a later value of a name is kept behind the first one, which
\* is the one that Get gives.
hAdd(h, name, value) == IF Has(h, name) THEN h ELSE Store(h, name, value)

\* bytes.Index: the first place of sep in s at or after i, or 0.
RECURSIVE IndexFrom(_, _, _)
IndexFrom(s, sep, i) ==
    IF i + Len(sep) - 1 > Len(s) THEN 0
    ELSE IF SubSeq(s, i, i + Len(sep) - 1) = sep THEN i
    ELSE IndexFrom(s, sep, i + 1)

\* bytes.Cut and strings.Cut: s around the first sep.
Cut(s, sep) ==
    LET i == IndexFrom(s, sep, 1)
    IN IF i = 0 THEN [before |-> s, after |-> <<>>, ok |-> FALSE]
       ELSE [before |-> SubSeq(s, 1, i - 1),
             after |-> SubSeq(s, i + Len(sep), Len(s)), ok |-> TRUE]

\* strings.Split(s, sep) for a non-empty sep.
RECURSIVE Split(_, _)
Split(s, sep) ==
    LET c == Cut(s, sep)
    IN IF c.ok THEN <<c.before>> \o Split(c.after, sep) ELSE <<s>>

\* strings.TrimSpace
RECURSIVE TrimLeft(_)
TrimLeft(s) == IF s # <<>> /\ IsSpace(Head(s)) THEN TrimLeft(Tail(s)) ELSE s
RECURSIVE TrimRight(_)
TrimRight(s) ==
    IF s # <<>> /\ IsSpace(s[Len(s)]) THEN TrimRight(SubSeq(s, 1, Len(s) - 1)) ELSE s
TrimSpace(s) == TrimRight(TrimLeft(s))

NL == <<"\n">>
ColonSpace == <<":", " ">>
OctetStream == <<"application/octet-stream">>

\* hprintf: "name: value\n" for the value of the header or else the fallback.
hprintf(h, name, fallback) ==
    IF hGet(h, name) # <<>> THEN name \o ColonSpace \o hGet(h, name) \o NL
    ELSE IF fallback # <<>> THEN name \o ColonSpace \o fallback \o NL
    ELSE <<>>

\* writeCacheObject: the three header lines, an empty line, the body.
writeCacheObject(h, body) ==
    hprintf(h, HContentType, OctetStream) \o hprintf(h, HDate, <<>>)
        \o hprintf(h, HEtag, <<>>) \o NL \o body

\* The loop of parseCacheObject over the header lines.
RECURSIVE ParseLines(_, _)
ParseLines(lines, h) ==
    IF lines = <<>> THEN h
    ELSE LET c == Cut(Head(lines), ColonSpace)
         IN ParseLines(Tail(lines), IF c.ok THEN hAdd(h, c.before, c.after) ELSE h)

\* parseCacheObject: the header up to the first empty line, then the body.
parseCacheObject(data) ==
    LET c == Cut(data, NL \o NL)
    IN IF ~c.ok THEN [err |-> TRUE, body |-> <<>>, header |-> Empty]
       ELSE [err |-> FALSE, body |-> c.after,
             header |-> ParseLines(Split(c.before, NL), Empty)]

\* keepHeader and trimCacheHeader: the kept headers that have a value.
keepHeader == <<HCacheControl, HContentType, HDate, HEtag>>
trimCacheHeader(h) ==
    [name \in {keepHeader[i] : i \in {j \in 1..Len(keepHeader) : hGet(h, keepHeader[j]) # <<>>}}
        |-> hGet(h, name)]

\* setXCacheInfo: X-Cache, and X-Cache-Id for a hash that is not empty.
IdLen == 12
setXCacheInfo(h, result, hash) ==
    IF hash # <<>>
    THEN hSet(hSet(h, HXCache, <<result>>), HXCacheId, SubSeq(hash, 1, IdLen))
    ELSE hSet(h, HXCache, <<result>>)

\* splitCacheControl: the value of Cache-Control split at commas, each part
\* trimmed of spaces.
splitCacheControl(h) ==
    LET fs == Split(hGet(h, HCacheControl), <<",">>)
    IN [i \in 1..Len(fs) |-> TrimSpace(fs[i])]

Contains(seq, v) == \E i \in 1..Len(seq) : seq[i] = v
NoStore == <<"no-store">>
Immutable == <<"immutable">>
MaxAgeEq == <<"max-age=">>

-----------------------------------------------------------------------------
(* Reverse proxy: what can be cached *)

StatusOK == 200
StatusBadGateway == 502
MaxMemoryAge == 3600

\* A check of the request that looks at the method only.
canCacheAnyGet(r) == r.method = "GET"

\* canCacheRequest: a GET whose Cache-Control has no no-store.
canCacheRequest(r) ==
    r.method = "GET" /\ ~Contains(splitCacheControl(r.header), NoStore)

\* A check of the response that does not look for no-store.
canCacheImmutable(rsp) ==
    rsp.status = StatusOK /\ Contains(splitCacheControl(rsp.header), Immutable)

\* canCacheResponse: status 200 with immutable and without no-store.
canCacheResponse(rsp) ==
    /\ rsp.status = StatusOK
    /\ ~Contains(splitCacheControl(rsp.header), NoStore)
    /\ Contains(splitCacheControl(rsp.header), Immutable)

\* int, int64 and time.Duration of the 64-bit build: two's complement in
\* eight bytes, the lowest first.  The arithmetic of Go wraps silently.
RECURSIVE ToBytes(_, _)
ToBytes(n, k) == IF k = 0 THEN <<>> ELSE <<n % 256>> \o ToBytes(n \div 256, k - 1)
Int64(n) == ToBytes(n, 8)

\* x * m + carry from byte i on, for m and carry below 2^20: the bytes of the
\* result and what does not fit in them.
RECURSIVE MulAdd(_, _, _, _)
MulAdd(x, i, m, carry) ==
    IF i > Len(x) THEN [val |-> <<>>, carry |-> carry]
    ELSE LET p == x[i] * m + carry
             rest == MulAdd(x, i + 1, m, p \div 256)
         IN [val |-> <<p % 256>> \o rest.val, carry |-> rest.carry]

\* a + b, wrapped.
RECURSIVE AddFrom(_, _, _, _)
AddFrom(a, b, i, carry) ==
    IF i > Len(a) THEN <<>>
    ELSE <<(a[i] + b[i] + carry) % 256>>
             \o AddFrom(a, b, i + 1, (a[i] + b[i] + carry) \div 256)
Add64(a, b) == AddFrom(a, b, 1, 0)

\* -x, wrapped.
Neg64(x) == MulAdd([i \in 1..8 |-> 255 - x[i]], 1, 1, 1).val

IsNeg(x) == x[8] >= 128
ULess(a, b) == \E i \in 1..8 : a[i] < b[i] /\ \A j \in (i + 1)..8 : a[j] = b[j]
Less64(a, b) == IF IsNeg(a) # IsNeg(b) THEN IsNeg(a) ELSE ULess(a, b)

\* The built-in min of two ints.
min(a, b) == IF Less64(b, a) THEN b ELSE a

\* A min that knows no negative numbers.
minUnsigned(a, b) == IF ULess(b, a) THEN b ELSE a

\* strconv.Atoi: an optional sign, then one or more digits; a value out of
\* the range of int64 is an error.
RECURSIVE ParseUint(_, _)
ParseUint(ds, acc) ==
    IF ds = <<>> THEN [ok |-> TRUE, val |-> acc]
    ELSE LET n == MulAdd(acc, 1, 10, DigitVal(Head(ds)))
         IN IF n.carry # 0 THEN [ok |-> FALSE, val |-> acc]
            ELSE ParseUint(Tail(ds), n.val)
Atoi(s) ==
    LET signed == s # <<>> /\ Head(s) \in {"+", "-"}
        neg    == signed /\ Head(s) = "-"
        ds     == IF signed THEN Tail(s) ELSE s
        un     == ParseUint(ds, Int64(0))
    IN IF ds = <<>> \/ \E i \in 1..Len(ds) : ~IsDigit(ds[i]) THEN [ok |-> FALSE, val |-> Int64(0)]
       ELSE IF ~un.ok THEN [ok |-> FALSE, val |-> Int64(0)]
       ELSE IF neg
       THEN IF IsNeg(un.val) /\ un.val # Neg64(un.val)
            THEN [ok |-> FALSE, val |-> Int64(0)]
            ELSE [ok |-> TRUE, val |-> Neg64(un.val)]
       ELSE IF IsNeg(un.val) THEN [ok |-> FALSE, val |-> Int64(0)]
       ELSE [ok |-> TRUE, val |-> un.val]

\* time.Duration(n) * time.Second: n * 10^9 nanoseconds, wrapped; the
\* product is taken in three steps of a thousand.
Thousand == 1000
TimesThousand(d) == MulAdd(d, 1, Thousand, 0).val
Seconds(n) == TimesThousand(TimesThousand(TimesThousand(n)))

\* The loop of canMemoryCache over the tokens: it ends at the first no-store
\* or immutable, and the last max-age that parses counts.
RECURSIVE MaxAgeLoop(_, _)
MaxAgeLoop(cc, maxAge) ==
    IF cc = <<>>
    THEN [maxAge |-> maxAge, ok |-> Less64(Int64(0), maxAge)]
    ELSE LET v == Head(cc)
         IN IF v = NoStore \/ v = Immutable THEN [maxAge |-> Int64(0), ok |-> FALSE]
            ELSE IF ~HasPrefix(v, MaxAgeEq) THEN MaxAgeLoop(Tail(cc), maxAge)
            ELSE LET sec == Atoi(TrimPrefix(v, MaxAgeEq))
                 IN MaxAgeLoop(Tail(cc),
                               IF sec.ok
                               THEN Seconds(min(sec.val, Int64(MaxMemoryAge)))
                               ELSE maxAge)

\* A canMemoryCache that keeps every response of status 200 without no-store
\* and immutable, a max-age of zero included.
canMemoryCacheZero(rsp) ==
    IF rsp.status # StatusOK THEN [maxAge |-> Int64(0), ok |-> FALSE]
    ELSE [maxAge |-> MaxAgeLoop(splitCacheControl(rsp.header), Int64(0)).maxAge,
          ok |-> \A i \in 1..Len(splitCacheControl(rsp.header)) :
                    splitCacheControl(rsp.header)[i] \notin {NoStore, Immutable}]

\* canMemoryCache: a response of status 200 to be kept in memory for maxAge.
canMemoryCache(rsp) ==
    IF rsp.status # StatusOK THEN [maxAge |-> Int64(0), ok |-> FALSE]
    ELSE MaxAgeLoop(splitCacheControl(rsp.header), Int64(0))

\* hashRequestURL: the hex SHA-256 of the URL, idealised as a table of
\* digests that differ from each other within their first IdLen characters
\* or after them.
HostFoo == FooCom
HostSub == <<"o", ".", "b", ".", "c">>
HostOther == <<"n", ".", "o">>
URL(host, path) == <<"https://">> \o host \o path
PathA == <<"/", "a">>
PathB == <<"/", "b">>
HashPrefix == <<"0", "1", "2", "3", "4", "5", "6", "7", "8", "9", "a">>
hashRequestURL(u) ==
    IF u = URL(HostFoo, PathA) THEN HashPrefix \o <<"b", "c", "d">>
    ELSE IF u = URL(HostSub, PathB) THEN HashPrefix \o <<"b", "c", "e">>
    ELSE HashPrefix \o <<"f", "c", "d">>

ProxyLocal == <<"r">>
ProxyPrefix == KeyPrefix \o <<"revproxy">>
proxyMakePath(hash) == ProxyLocal \o <<Shard(hash), hash>>
proxyMakeKey(hash) == ProxyPrefix \o <<Shard(hash), hash>>

\* Requests: the method, the host and the path of the URL, the header.
Header(cc) == IF cc = <<>> THEN Empty ELSE hSet(Empty, HCacheControl, cc)
Req(method, host, path, cc) ==
    [method |-> method, host |-> host, url |-> URL(host, path), header |-> Header(cc)]
Requests ==
    {Req("GET", HostFoo, PathA, <<>>), Req("GET", HostSub, PathB, <<>>),
     Req("GET", HostFoo, PathA, <<"no-cache", ",", " ">> \o NoStore),
     Req("POST", HostFoo, PathA, <<>>), Req("GET", HostOther, PathA, <<>>)}

\* Responses of upstream: the status, the header, the body.
Rsp(status, cc, ctype, body) ==
    [status |-> status, body |-> body,
     header |-> IF ctype = <<>> THEN hSet(Header(cc), HServer, <<"s">>)
                ELSE hSet(hSet(Header(cc), HServer, <<"s">>), HContentType, ctype)]
Body1 == <<"x">>
Body2 == NL \o NL \o <<"y">>
Responses ==
    {Rsp(200, Immutable, <<"t">>, Body1),
     Rsp(200, <<"max-age=", "6", "0", ",", " ">> \o Immutable, <<>>, Body2),
     Rsp(200, Immutable \o <<",">> \o NoStore, <<>>, Body1),
     Rsp(200, <<"max-age=", "5", "0", "0", "0">>, <<"t">>, Body2),
     Rsp(404, Immutable, <<>>, Body2)}

\* The responses of upstream in full: every Cache-Control of up to two of
\* these tokens, with and without Content-Type, Date and Etag, and bodies
\* with empty lines and with lines that look like header lines.
Huge == <<"9", "9", "9", "9", "9", "9", "9", "9", "9", "9", "9", "9", "9", "9", "9", "9",
          "9", "9", "9", "9">>
Wrapping == <<"9", "2", "2", "3", "3", "7", "2", "0", "3", "7">>
Tokens ==
    {Immutable, NoStore, <<"private">>, <<"max-age=", "0">>, <<"max-age=", "5">>,
     <<"max-age=", "5", "0", "0", "0">>, <<"max-age=", "-", "5">>,
     <<"max-age=", "x">>, MaxAgeEq \o Huge, MaxAgeEq \o <<"-">> \o Wrapping}
CacheControls ==
    {<<>>} \cup Tokens \cup {t \o <<",", " ">> \o u : t \in Tokens, u \in Tokens}
Body3 == <<"\n">> \o HEtag \o <<":", " ", "z", "\n", "\n">>
RspFull(status, cc, kept, body) ==
    [status |-> status, body |-> body,
     header |-> [name \in DOMAIN Header(cc) \cup {HServer} \cup kept |->
                   IF name = HCacheControl THEN cc ELSE <<"v">>]]
ManyResponses ==
    {RspFull(status, cc, kept, body) :
        status \in {200, 404}, cc \in CacheControls,
        kept \in {{}, {HContentType, HDate, HEtag}}, body \in {Body1, Body2, Body3}}

\* What upstream can answer in the world at hand.
Upstream == IF world = "responses" THEN ManyResponses ELSE Responses

-----------------------------------------------------------------------------
(* Reverse proxy: the cache tiers *)

MaxReqs == 3
MaxTicks == 2
TickSteps == {5, 3600}

Remove(f, k) == [x \in (DOMAIN f) \ {k} |-> f[x]]

\* time.Now(): the clock counts seconds; the time in nanoseconds.
Now == Seconds(Int64(now))

\* A cacheLoadMemory that does not look at the clock.
cacheLoadMemoryStale(hash) ==
    IF ~Has(pMem, hash)
    THEN [err |-> TRUE, body |-> <<>>, header |-> Empty, mem |-> pMem]
    ELSE [err |-> FALSE, body |-> pMem[hash].body, header |-> pMem[hash].header,
          mem |-> pMem]

\* A cacheLoadMemory that reports an entry past its expiry as missing and
\* leaves it in the cache.
cacheLoadMemoryKeep(hash) ==
    IF ~Has(pMem, hash) \/ ULess(pMem[hash].expires, Now)
    THEN [err |-> TRUE, body |-> <<>>, header |-> Empty, mem |-> pMem]
    ELSE [err |-> FALSE, body |-> pMem[hash].body, header |-> pMem[hash].header,
          mem |-> pMem]

\* cacheLoadMemory: the entry of the hash unless the clock is past its
\* expiry, in which case the entry is removed.
cacheLoadMemory(hash) ==
    IF ~Has(pMem, hash)
    THEN [err |-> TRUE, body |-> <<>>, header |-> Empty, mem |-> pMem]
    ELSE IF ULess(pMem[hash].expires, Now)
    THEN [err |-> TRUE, body |-> <<>>, header |-> Empty, mem |-> Remove(pMem, hash)]
    ELSE [err |-> FALSE, body |-> pMem[hash].body, header |-> pMem[hash].header,
          mem |-> pMem]

\* cacheStoreMemory: the entry expires at time.Now().Add(maxAge).
cacheStoreMemory(mem, hash, maxAge, hdr, body) ==
    Store(mem, hash, [header |-> trimCacheHeader(hdr), body |-> body,
                      expires |-> Add64(Now, maxAge)])

\* cacheLoadLocal: os.ReadFile of the path, then parseCacheObject.
cacheLoadLocal(hash, fault) ==
    IF fault \/ ~Has(pLocal, proxyMakePath(hash))
    THEN [err |-> TRUE, body |-> <<>>, header |-> Empty]
    ELSE parseCacheObject(pLocal[proxyMakePath(hash)])

\* A cacheStoreLocal that writes no file and reports no error.
cacheStoreLocalDropped(hash, hdr, body, fault) == [err |-> fault, local |-> pLocal]

\* A cacheStoreLocal that leaves the body out of the file.
cacheStoreLocalHeaderOnly(hash, hdr, body, fault) ==
    IF fault THEN [err |-> TRUE, local |-> pLocal]
    ELSE [err |-> FALSE,
          local |-> Store(pLocal, proxyMakePath(hash), writeCacheObject(hdr, <<>>))]

\* cacheStoreLocal: MkdirAll, then the cache object written atomically.
cacheStoreLocal(hash, hdr, body, fault) ==
    IF fault THEN [err |-> TRUE, local |-> pLocal]
    ELSE [err |-> FALSE,
          local |-> Store(pLocal, proxyMakePath(hash), writeCacheObject(hdr, body))]

\* cacheLoadS3: GetData of the key, then parseCacheObject.
cacheLoadS3(hash, fault) ==
    LET got == ClientGet(proxyMakeKey(hash), fault)
    IN IF got.err # "" THEN [err |-> TRUE, body |-> <<>>, header |-> Empty]
       ELSE parseCacheObject(got.data)

\* The tasks of the proxy run under a throttle of runtime.NumCPU().
ProxyActive ==
    LET running == {t \in Calls(pTasks) : t.pc = "run"}
    IN IF running = {} THEN 0
       ELSE BagCardinality([t \in running |-> CopiesIn(t, pTasks)])
ProxySlotFree == ProxyActive < NumCPU

-----------------------------------------------------------------------------
(* Reverse proxy: Server.ServeHTTP *)

\* No response of upstream: the request was answered without it.
NoRsp == [status |-> 0, body |-> <<>>, header |-> Empty]

\* The failures a request can meet: of the read of the local file, of the
\* read of the bucket, of the write of the local file, and of the copy of
\* the body from upstream to the client; one at most.
ProxyFaults ==
    {f \in [read : BOOLEAN, s3 : BOOLEAN, write : BOOLEAN, cut : BOOLEAN] :
        /\ ~(f.read /\ f.s3) /\ ~(f.read /\ f.write) /\ ~(f.s3 /\ f.write)
        /\ f.cut => world = "cut" /\ ~(f.read \/ f.s3 \/ f.write)}

\* What a copy that was cut short, by a read error of upstream or by the
\* client going away, has passed through the tee: all but the end.
CutShort(body) == IF body = <<>> THEN body ELSE SubSeq(body, 1, Len(body) - 1)

\* A handler that goes on to updateCache after a copy that failed.
abortsNever(cut) == FALSE

\* proxy.ServeHTTP under an http.Server does not return from a copy that
\* failed: it panics with http.ErrAbortHandler, and updateCache is not run.
aborts(cut) == cut

\* What a request leaves: the response written to the client, the tiers it
\* read in their order, the response upstream gave, and the memory cache,
\* the local directory and the cache object of the task to start, if any.
Served(status, header, body, trail, rsp, mem, local, task, adds) ==
    [status |-> status, header |-> header, body |-> body, trail |-> trail,
     rsp |-> rsp, mem |-> mem, local |-> local, task |-> task, adds |-> adds]

\* The counters after Add(1) on each of the names, in their order.
RECURSIVE Added(_, _)
Added(m, names) ==
    IF names = <<>> THEN m
    ELSE Added([m EXCEPT ![Head(names)] = @ + 1], Tail(names))

\* A hit that is answered and then falls through to the forwarding code.
ServeHitForwarded(result, loaded, hash, trail, mem, local, adds) ==
    Served(StatusOK, setXCacheInfo(loaded.header, result, hash), loaded.body,
           trail, NoRsp, mem, local, <<>>, Append(adds, "reqForward"))

\* writeCachedResponse of a hit, after setXCacheInfo.
ServeHit(result, loaded, hash, trail, mem, local, adds) ==
    Served(StatusOK, setXCacheInfo(loaded.header, result, hash), loaded.body,
           trail, NoRsp, mem, local, <<>>, adds)

\* An updateCache that goes on to the bucket whatever the local write gave.
forwardsS3Always(err) == TRUE

\* updateCache starts the upload unless the local write failed.
forwardsS3(err) == ~err

\* The request goes to upstream; for a request that can be cached,
\* ModifyResponse marks the response and updateCache stores it.
\* buf: what the copy to the client has passed through the tee.
Forward(rsp, faults, hash, canCache, trail, mem, adds) ==
    LET seen == Append(trail, "upstream")
        mc == canMemoryCache(rsp)
        fwd == Append(adds, "reqForward")
        buf == IF faults.cut THEN CutShort(rsp.body) ELSE rsp.body
    IN IF ~canCache
       THEN Served(rsp.status, rsp.header, buf, seen, rsp, mem, pLocal, <<>>, fwd)
       ELSE IF ~mc.ok /\ ~canCacheResponse(rsp)
       THEN Served(rsp.status, setXCacheInfo(rsp.header, "fetch, uncached", <<>>),
                   buf, seen, rsp, mem, pLocal, <<>>,
                   Append(fwd, "rspNotCached"))
       ELSE IF aborts(faults.cut)
       THEN Served(rsp.status,
                   setXCacheInfo(rsp.header, IF mc.ok THEN "fetch, cached, volatile"
                                             ELSE "fetch, cached", hash),
                   buf, seen, rsp, mem, pLocal, <<>>, fwd)
       ELSE IF mc.ok
       THEN LET h == setXCacheInfo(rsp.header, "fetch, cached, volatile", hash)
            IN Served(rsp.status, h, buf, seen, rsp,
                      cacheStoreMemory(mem, hash, mc.maxAge, h, buf), pLocal, <<>>,
                      Append(fwd, "rspSaveMem"))
       ELSE LET h == setXCacheInfo(rsp.header, "fetch, cached", hash)
                st == cacheStoreLocal(hash, h, buf, faults.write)
            IN Served(rsp.status, h, buf, seen, rsp, mem, st.local,
                      IF forwardsS3(st.err) THEN <<writeCacheObject(h, buf)>> ELSE <<>>,
                      Append(fwd, IF st.err THEN "rspSaveError" ELSE "rspSave"))

\* The tiers in the order of the code: memory, local, S3, then upstream.
Lookup(r, rsp, faults) ==
    LET hash == hashRequestURL(r.url)
        m == cacheLoadMemory(hash)
        l == cacheLoadLocal(hash, faults.read)
        s == cacheLoadS3(hash, faults.s3)
    IN IF ~hostMatchesTarget(r.host, targets)
       THEN Served(StatusBadGateway, Empty, <<"Bad Gateway">>, <<>>, NoRsp,
                   pMem, pLocal, <<>>, <<"reqReceived">>)
       ELSE IF ~canCacheRequest(r)
       THEN Forward(rsp, faults, hash, FALSE, <<>>, pMem, <<"reqReceived">>)
       ELSE IF ~m.err
       THEN \* the header that setXCacheInfo writes to is the map of the entry
            ServeHit("hit, memory", m, hash, <<"memory">>,
                     Store(pMem, hash, [pMem[hash] EXCEPT !.header =
                                          setXCacheInfo(m.header, "hit, memory", hash)]),
                     pLocal, <<"reqReceived", "reqMemoryHit">>)
       ELSE IF ~l.err
       THEN ServeHit("hit, local", l, hash, <<"memory", "local">>, m.mem, pLocal,
                     <<"reqReceived", "reqLocalHit">>)
       ELSE IF ~s.err
       THEN ServeHit("hit, remote", s, hash, <<"memory", "local", "remote">>, m.mem,
                     cacheStoreLocal(hash, s.header, s.body, faults.write).local,
                     <<"reqReceived", "reqLocalMiss", "reqFaultHit">>)
       ELSE Forward(rsp, faults, hash, TRUE, <<"memory", "local", "remote">>,
                    m.mem, <<"reqReceived", "reqLocalMiss", "reqFaultMiss">>)

\* What the request returned and met; a failure is met by a request that
\* came to the read or to the write that fails.
ProxyRet(r, faults, out) ==
    [op |-> "ServeHTTP", req |-> r, status |-> out.status,
     faults |-> [read |-> faults.read /\ Contains(out.trail, "local"),
                 s3 |-> faults.s3 /\ Contains(out.trail, "remote"),
                 write |-> faults.write /\ Contains(out.trail, "remote"),
                 cut |-> faults.cut /\ Contains(out.trail, "upstream")],
     header |-> out.header, body |-> out.body, trail |-> out.trail, rsp |-> out.rsp]

\* Server.ServeHTTP, with updateCache; a task to start waits for a slot of
\* the throttle in ProxyStart.
ServeHTTP(r) ==
    /\ world \in {"proxy", "responses", "cut"}
    /\ reqs < MaxReqs
    /\ world = "responses" => reqs = 0
    /\ reqs' = reqs + 1
    /\ \E rsp \in Upstream, faults \in ProxyFaults :
       \E out \in {Lookup(r, rsp, faults)}, hash \in {hashRequestURL(r.url)} :
            /\ pMem' = out.mem
            /\ pLocal' = out.local
            /\ pTasks' = IF out.task = <<>> THEN pTasks
                         ELSE Called(pTasks, [hash |-> hash, data |-> out.task[1],
                                              pc |-> "start"])
            /\ fetched' = IF out.rsp = NoRsp THEN fetched
                          ELSE fetched \cup {[hash |-> hash, rsp |-> out.rsp]}
            /\ ret' = ProxyRet(r, faults, out)
            /\ pMetrics' = Added(pMetrics, out.adds)
    /\ UNCHANGED <<world, localAct, localObj, remote, puts, metrics, calls,
                   putOuts, uploaded, closing, modVars, targets, now,
                   connector, handlers, etr, semaVars>>

\* s.start(task): the task runs once the throttle has a slot for it.
ProxyStart(t) ==
    /\ t.pc = "start"
    /\ ProxySlotFree
    /\ pTasks' = Stepped(pTasks, t, [t EXCEPT !.pc = "run"])
    /\ UNCHANGED <<world, localAct, localObj, remote, puts, metrics, ret, calls,
                   putOuts, uploaded, closing, modVars, restVars>>
    /\ UNCHANGED <<targets, pMem, pLocal, now, fetched, reqs>>

\* The task of cacheStoreS3: S3Client.Put of the cache object; a failure is
\* logged and counted, and the task returns nil.
ProxyTask(t) ==
    /\ t.pc = "run"
    /\ pTasks' = Ended(pTasks, t)
    /\ \E outcome \in {"ok", "lost", "applied"} :
         /\ remote' = IF outcome = "lost" THEN remote
                      ELSE Store(remote, proxyMakeKey(t.hash), Blob(t.data))
         /\ ret' = [op |-> "ProxyTask", hash |-> t.hash,
                    res |-> IF outcome = "ok" THEN "ok" ELSE "failed"]
    /\ UNCHANGED <<world, localAct, localObj, puts, metrics, calls,
                   putOuts, uploaded, closing, modVars, restVars>>
    /\ UNCHANGED <<targets, pMem, pLocal, now, fetched, reqs>>

\* Time passes; the clock is read for the entries of the memory cache only.
Ticks == (now \div 3600) + ((now % 3600) \div 5)
Tick(d) ==
    /\ world = "proxy"
    /\ pMem # Empty
    /\ Ticks < MaxTicks
    /\ now' = now + d
    /\ UNCHANGED <<world, localAct, localObj, remote, puts, metrics, ret, calls,
                   putOuts, uploaded, closing, modVars, restVars>>
    /\ UNCHANGED <<targets, pMem, pLocal, pTasks, fetched, reqs>>

\* The local directory of the proxy is emptied (a new machine, a cleaned
\* cache directory).
ProxyWipe ==
    /\ world \in {"proxy", "cut"}
    /\ pLocal # Empty
    /\ pLocal' = Empty
    /\ UNCHANGED <<world, localAct, localObj, remote, puts, metrics, ret, calls,
                   putOuts, uploaded, closing, modVars, restVars>>
    /\ UNCHANGED <<targets, pMem, pTasks, now, fetched, reqs>>

(* CONNECT bridge: Connector *)

QueueCap == 1

StatusMethodNotAllowed == 405
StatusNotFound == 404
StatusNotImplemented == 501
StatusForbidden == 403
StatusInternalServerError == 500
StatusServiceUnavailable == 503

\* Addresses are host:port; the Connector accepts f.c:4 and *.b.c:4.
Port4 == <<":", "4">>
Port8 == <<":", "8">>
Addrs == <<FooCom \o Port4, StarBarCom \o Port4>>
ConnectHosts ==
    {FooCom \o Port4, <<"o", ".", "b", ".", "c">> \o Port4, FooCom \o Port8,
     <<"n", ".", "o">> \o Port4}

\* A request to the Connector: the method, r.URL.Host, r.URL.Path, and what
\* the ResponseWriter does about Hijack ("none": it is no http.Hijacker).
ConnectRequests ==
    [method : {"CONNECT", "GET"}, host : ConnectHosts, path : {<<>>, <<"/", "x">>},
     hijack : {"ok", "none", "error"}]

\* The checks of ServeHTTP without the one of the address.
connectChecksNoAddr(r, addrs) ==
    IF r.method # "CONNECT" THEN StatusMethodNotAllowed
    ELSE IF r.path # <<>> THEN StatusNotFound
    ELSE IF r.hijack = "none" THEN StatusNotImplemented
    ELSE IF r.hijack = "error" THEN StatusInternalServerError
    ELSE 0

\* The checks of ServeHTTP up to the hijack, in their order: the status of
\* the first that fails, or 0.
connectChecks(r, addrs) ==
    IF r.method # "CONNECT" THEN StatusMethodNotAllowed
    ELSE IF r.path # <<>> THEN StatusNotFound
    ELSE IF r.hijack = "none" THEN StatusNotImplemented
    ELSE IF ~hostMatchesTarget(r.host, addrs) THEN StatusForbidden
    ELSE IF r.hijack = "error" THEN StatusInternalServerError
    ELSE 0

\* Connector.ServeHTTP up to the call of push.
ConnectServe(h, r) ==
    /\ world = "connect"
    /\ handlers[h].pc = "idle"
    /\ \E status \in {connectChecks(r, targets)} :
          handlers' = [handlers EXCEPT ![h] =
                          [@ EXCEPT !.req = r, !.status = status,
                                    !.pc = IF status = 0 THEN "push" ELSE "returned"]]
    /\ ret' = [op |-> "ServeHTTP", handler |-> h]
    /\ UNCHANGED <<connector, etr, targets, pMetrics, semaVars>>
    /\ UNCHANGED <<world, localAct, localObj, remote, puts, metrics, calls, putOuts,
                   uploaded, closing, modVars, pMem, pLocal, pTasks, now, fetched, reqs>>

\* A channel that takes every send.
canSendAlways(queue) == TRUE

\* A send to c.queue does not block.
canSend(queue) == Len(queue) < QueueCap

\* The select of push: the Connector is stopped and the handler answers 503,
\* or the connection goes to the queue and the handler writes "200 OK".
\* With both ready either happens.
Push(h) ==
    /\ handlers[h].pc = "push"
    /\ \/ /\ connector.stopped
          /\ handlers' = [handlers EXCEPT ![h] =
                            [@ EXCEPT !.status = StatusServiceUnavailable,
                                      !.pc = "returned"]]
          /\ UNCHANGED connector
       \/ /\ canSend(connector.queue)
          /\ connector' = [connector EXCEPT !.queue = Append(@, h)]
          /\ handlers' = [handlers EXCEPT ![h] =
                            [@ EXCEPT !.status = StatusOK, !.pc = "wait"]]
    /\ ret' = [op |-> "push", handler |-> h]
    /\ UNCHANGED <<etr, targets, pMetrics, semaVars>>
    /\ UNCHANGED <<world, localAct, localObj, remote, puts, metrics, calls, putOuts,
                   uploaded, closing, modVars, pMem, pLocal, pTasks, now, fetched, reqs>>

\* A receive that leaves the connection in the queue.
receivePeek(queue) == queue

\* What a receive leaves of the queue.
receive(queue) == Tail(queue)

\* Connector.Accept: blocked until the Connector is stopped or the queue has
\* a connection; with both ready either case of the select is taken.
Accept ==
    /\ world = "connect"
    /\ \/ /\ connector.stopped
          /\ ret' = [op |-> "Accept", conn |-> 0, err |-> "ErrClosed"]
          /\ UNCHANGED <<connector, handlers>>
       \/ /\ connector.queue # <<>>
          /\ connector' = [connector EXCEPT !.queue = receive(@)]
          /\ handlers' = [handlers EXCEPT ![Head(connector.queue)].taken = @ + 1]
          /\ ret' = [op |-> "Accept", conn |-> Head(connector.queue), err |-> "nil"]
    /\ UNCHANGED <<etr, targets, pMetrics, semaVars>>
    /\ UNCHANGED <<world, localAct, localObj, remote, puts, metrics, calls, putOuts,
                   uploaded, closing, modVars, pMem, pLocal, pTasks, now, fetched, reqs>>

\* clientConn.Close by the side that accepted the connection, once: the
\* done channel is closed.
ConnClose(h) ==
    /\ handlers[h].taken > 0
    /\ ~handlers[h].done
    /\ handlers' = [handlers EXCEPT ![h].done = TRUE]
    /\ ret' = [op |-> "clientConn.Close", handler |-> h]
    /\ UNCHANGED <<connector, etr, targets, pMetrics, semaVars>>
    /\ UNCHANGED <<world, localAct, localObj, remote, puts, metrics, calls, putOuts,
                   uploaded, closing, modVars, pMem, pLocal, pTasks, now, fetched, reqs>>

\* A receive from done that does not wait.
doneReadyAlways(h) == TRUE

\* The receive from done at the end of ServeHTTP can proceed.
doneReady(h) == handlers[h].done

\* ServeHTTP returns once done is closed.
ConnectReturn(h) ==
    /\ handlers[h].pc = "wait"
    /\ doneReady(h)
    /\ handlers' = [handlers EXCEPT ![h].pc = "returned"]
    /\ ret' = [op |-> "ServeHTTP return", handler |-> h]
    /\ UNCHANGED <<connector, etr, targets, pMetrics, semaVars>>
    /\ UNCHANGED <<world, localAct, localObj, remote, puts, metrics, calls, putOuts,
                   uploaded, closing, modVars, pMem, pLocal, pTasks, now, fetched, reqs>>

\* Connector.Close; calls of Close do not overlap.
ConnectorClose ==
    /\ world = "connect"
    /\ IF connector.stopped
       THEN /\ ret' = [op |-> "Close", err |-> "ErrClosed"]
            /\ UNCHANGED connector
       ELSE /\ ret' = [op |-> "Close", err |-> "nil"]
            /\ connector' = [connector EXCEPT !.stopped = TRUE]
    /\ UNCHANGED <<handlers, etr, targets, pMetrics, semaVars>>
    /\ UNCHANGED <<world, localAct, localObj, remote, puts, metrics, calls, putOuts,
                   uploaded, closing, modVars, pMem, pLocal, pTasks, now, fetched, reqs>>

------------------------------------------------------------------------------

(* ETagReader *)

MaxLen == 4
MaxRead == 3

\* The inputs: the byte strings of up to MaxLen bytes.
RECURSIVE BytesOfLen(_)
BytesOfLen(n) ==
    IF n = 0 THEN {<<>>}
    ELSE {Append(s, b) : s \in BytesOfLen(n - 1), b \in {"a", "b"}}
Inputs == UNION {BytesOfLen(n) : n \in 0..MaxLen}

\* NewETagReader: a TeeReader of r into a new MD5 hash.
NewETagReader(input) ==
    /\ world = "reader"
    /\ ~etr.open
    /\ etr' = [open |-> TRUE, input |-> input, pos |-> 0, out |-> <<>>, hash |-> <<>>]
    /\ ret' = [op |-> "NewETagReader", n |-> 0, err |-> "nil"]
    /\ UNCHANGED <<connector, handlers, targets, pMetrics, semaVars>>
    /\ UNCHANGED <<world, localAct, localObj, remote, puts, metrics, calls, putOuts,
                   uploaded, closing, modVars, pMem, pLocal, pTasks, now, fetched, reqs>>

\* A tee that writes nothing but the first byte of each read to the hash.
teeFirst(chunk) == SubSeq(chunk, 1, 1)

\* What the TeeReader writes to the hash of the bytes a Read returned.
tee(chunk) == chunk

\* ETagReader.Read into a buffer of n bytes: the reader below gives from one
\* to n of the bytes that are left, or io.EOF when none is left.
EtrRead(n) ==
    /\ etr.open
    /\ LET left == Len(etr.input) - etr.pos
       IN IF left = 0
          THEN /\ ret' = [op |-> "Read", n |-> 0, err |-> "EOF"]
               /\ UNCHANGED etr
          ELSE \E k \in 1..(IF n < left THEN n ELSE left) :
                  LET chunk == SubSeq(etr.input, etr.pos + 1, etr.pos + k)
                  IN /\ etr' = [etr EXCEPT !.pos = @ + k, !.out = @ \o chunk,
                                           !.hash = @ \o tee(chunk)]
                     /\ ret' = [op |-> "Read", n |-> k, err |-> "nil"]
    /\ UNCHANGED <<connector, handlers, targets, pMetrics, semaVars>>
    /\ UNCHANGED <<world, localAct, localObj, remote, puts, metrics, calls, putOuts,
                   uploaded, closing, modVars, pMem, pLocal, pTasks, now, fetched, reqs>>

------------------------------------------------------------------------------

(* Module cache: concurrent calls of S3Cacher.Get *)

\* A semaphore that is released only by a Get that succeeded.
ReleaseOnSuccess(held, res) == IF res = "ok" THEN held - 1 ELSE held

\* defer c.sema.Release(1): runs on every return after the acquisition.
Release(held, res) == held - 1

\* c.sema.Acquire can take a slot while fewer than the task limit are held.
Acquirable == sema < modMaxTasks

\* What the Gets in flight leave alone.
getsFrame == <<world, localAct, localObj, remote, puts, metrics, calls, putOuts,
               uploaded, closing, modTasks, modErr, proxyVars, connector,
               handlers, etr, pMetrics>>

\* S3Cacher.Get up to c.sema.Acquire: the path, and the local file.
ModGetOpen(g, name) ==
    LET path == modMakePath(hashName(name))
    IN /\ gets[g].pc = "idle"
       /\ \E faults \in [path : BOOLEAN, read : BOOLEAN] :
            IF faults.path
            THEN /\ modMetrics' = ModCount({"getRequest", "pathError"})
                 /\ ret' = ModGetRet(name, "error", <<>>, "none", "none", FALSE)
                 /\ gets' = [gets EXCEPT ![g] = [NoGet EXCEPT !.pc = "done", !.name = name]]
            ELSE IF ModMetLocal(path, faults.read) = "present"
            THEN /\ modMetrics' = ModCount({"getRequest", "getLocalHit"})
                 /\ ret' = ModGetRet(name, "ok", modLocal[path], "present", "none", FALSE)
                 /\ gets' = [gets EXCEPT ![g] = [NoGet EXCEPT !.pc = "done", !.name = name,
                                                           !.rlocal = "present"]]
            ELSE /\ modMetrics' = ModCount({"getRequest",
                        IF Has(modLocal, path) THEN "getLocalError" ELSE "getLocalMiss"})
                 /\ ret' = ret
                 /\ gets' = [gets EXCEPT ![g] = [NoGet EXCEPT !.pc = "acquire", !.name = name,
                                    !.rlocal = ModMetLocal(path, faults.read)]]
       /\ UNCHANGED <<modLocal, sema, getsFrame>>

\* c.sema.Acquire returns nil: the Get holds a slot.
ModGetAcquire(g) ==
    /\ gets[g].pc = "acquire"
    /\ Acquirable
    /\ sema' = sema + 1
    /\ gets' = [gets EXCEPT ![g].pc = "fetch"]
    /\ UNCHANGED <<modLocal, modMetrics, ret, getsFrame>>

\* c.sema.Acquire returns the error of a context that ended: Get returns it
\* and holds no slot.
ModGetAbandon(g) ==
    /\ gets[g].pc = "acquire"
    /\ gets' = [gets EXCEPT ![g].pc = "done"]
    /\ ret' = ModGetRet(gets[g].name, "error", <<>>, gets[g].rlocal, "none", FALSE)
    /\ UNCHANGED <<modLocal, modMetrics, sema, getsFrame>>

\* S3Client.Get under the slot: not found and any other error return.
ModGetS3(g) ==
    LET name == gets[g].name
        key == modMakeKey(hashName(name))
    IN /\ gets[g].pc = "fetch"
       /\ \E fault \in BOOLEAN :
            LET got == ClientGet(key, fault)
                rremote == Met(key, fault)
            IN IF got.err = "fs.ErrNotExist"
               THEN /\ modMetrics' = ModCount({"getFaultMiss"})
                    /\ ret' = ModGetRet(name, "notfound", <<>>, gets[g].rlocal, rremote, FALSE)
                    /\ gets' = [gets EXCEPT ![g].pc = "done", ![g].rremote = rremote]
                    /\ sema' = Release(sema, "notfound")
               ELSE IF got.err # ""
               THEN /\ modMetrics' = ModCount({"getFaultError"})
                    /\ ret' = ModGetRet(name, "error", <<>>, gets[g].rlocal, rremote, FALSE)
                    /\ gets' = [gets EXCEPT ![g].pc = "done", ![g].rremote = rremote]
                    /\ sema' = Release(sema, "error")
               ELSE /\ modMetrics' = ModCount({"getFaultHit"})
                    /\ gets' = [gets EXCEPT ![g].pc = "store", ![g].rremote = rremote,
                                            ![g].data = got.data]
                    /\ UNCHANGED <<ret, sema>>
       /\ UNCHANGED <<modLocal, getsFrame>>

\* putLocal of the object and openReader of the file, under the slot.
ModGetStore(g) ==
    LET name == gets[g].name
        path == modMakePath(hashName(name))
    IN /\ gets[g].pc = "store"
       /\ gets' = [gets EXCEPT ![g].pc = "done"]
       /\ \E faults \in [write : BOOLEAN, read : BOOLEAN] :
            LET put == putLocal(path, gets[g].data, faults.write)
            IN /\ modLocal' = put.local
               /\ IF put.err
                  THEN /\ modMetrics' = ModCount({"putLocalError"})
                       /\ ret' = ModGetRet(name, "error", <<>>, gets[g].rlocal,
                                           gets[g].rremote, FALSE)
                       /\ sema' = Release(sema, "error")
                  ELSE IF faults.read
                  THEN /\ modMetrics' = modMetrics
                       /\ ret' = ModGetRet(name, "error", <<>>, gets[g].rlocal,
                                           gets[g].rremote, ~put.found)
                       /\ sema' = Release(sema, "error")
                  ELSE /\ modMetrics' = modMetrics
                       /\ ret' = ModGetRet(name, "ok", modLocal'[path], gets[g].rlocal,
                                           gets[g].rremote, ~put.found)
                       /\ sema' = Release(sema, "ok")
       /\ UNCHANGED getsFrame

-----------------------------------------------------------------------------
(* Specifications *)

Next ==
    \/ \E obj \in ToolchainObjects \cup SharedObjects : Put(obj)
    \/ \E r \in Calls(puts) : PutStart(r)
    \/ \E r \in Calls(puts) : Cancel(r)
    \/ \E r \in Calls(puts) : TaskHead(r)
    \/ \E r \in Calls(puts) : TaskPutObject(r)
    \/ \E r \in Calls(puts) : TaskPutAction(r)
    \/ \E a \in {A1, A2, ShortA} : Get(a)
    \/ WipeLocal

\* The toolchain's world: well-formed ids, a bucket written by this engine only.
Spec == Init /\ [][Next]_vars

\* A shared bucket holding foreign action records, and arbitrary ids.
SpecShared == InitShared /\ [][Next]_vars

\* The two caches with their Close: the write side of the build cache, or
\* the module cache.
InitCaches ==
    /\ world \in {"toolchain", "module"}
    /\ remote = Empty
    /\ targets = <<>>
    /\ InitCommon

NextCaches ==
    \/ \E obj \in ToolchainObjects : Put(obj)
    \/ \E r \in Calls(puts) : PutStart(r)
    \/ \E r \in Calls(puts) : Cancel(r)
    \/ \E r \in Calls(puts) : TaskHead(r)
    \/ \E r \in Calls(puts) : TaskPutObject(r)
    \/ \E r \in Calls(puts) : TaskPutAction(r)
    \/ Close
    \/ CloseReturn
    \/ \E f \in ModFiles : ModPut(f[1], f[2])
    \/ \E r \in Calls(modTasks) : ModPutStart(r)
    \/ \E r \in Calls(modTasks) : ModTask(r)
    \/ \E name \in ModNames : ModGet(name)
    \/ ModWipe
    \/ ModClose
    \/ ModCloseReturn

SpecCaches == InitCaches /\ [][NextCaches]_vars

\* hostMatchesTarget on its own, over the target lists and the hosts.
InitTarget ==
    /\ world = "target"
    /\ remote = Empty
    /\ targets \in TargetLists
    /\ InitCommon

NextTarget == \E host \in Hosts : CheckTarget(host)

SpecTarget == InitTarget /\ [][NextTarget]_vars

\* The reverse proxy with the targets of its test.
InitProxy ==
    /\ world = "proxy"
    /\ remote = Empty
    /\ targets = TestTargets
    /\ InitCommon

NextProxy ==
    \/ \E r \in Requests : ServeHTTP(r)
    \/ \E t \in Calls(pTasks) : ProxyStart(t)
    \/ \E t \in Calls(pTasks) : ProxyTask(t)
    \/ \E d \in TickSteps : Tick(d)
    \/ ProxyWipe

SpecProxy == InitProxy /\ [][NextProxy]_vars

\* The tasks of the proxy run in their own goroutines: one that can start
\* does start, and one that runs ends, its Put being under a timeout.
ProxyTasksRun ==
    \/ \E t \in Calls(pTasks) : ProxyStart(t)
    \/ \E t \in Calls(pTasks) : ProxyTask(t)

SpecProxyLive == SpecProxy /\ WF_vars(ProxyTasksRun)

\* An ETagReader over some input, read to its end in pieces.
InitReader ==
    /\ world = "reader"
    /\ remote = Empty
    /\ targets = <<>>
    /\ InitCommon

NextReader ==
    \/ \E input \in Inputs : NewETagReader(input)
    \/ \E n \in 1..MaxRead : EtrRead(n)

SpecReader == InitReader /\ [][NextReader]_vars

\* The CONNECT bridge: handlers, one accepting side, Close.
InitConnect ==
    /\ world = "connect"
    /\ remote = Empty
    /\ targets = Addrs
    /\ InitCommon

NextConnect ==
    \/ \E h \in Handlers, r \in ConnectRequests : ConnectServe(h, r)
    \/ \E h \in Handlers : Push(h)
    \/ Accept
    \/ \E h \in Handlers : ConnClose(h)
    \/ \E h \in Handlers : ConnectReturn(h)
    \/ ConnectorClose

SpecConnect == InitConnect /\ [][NextConnect]_vars

\* One request to the proxy, answered by upstream with any of its responses.
InitResponses ==
    /\ world = "responses"
    /\ remote = Empty
    /\ targets = TestTargets
    /\ InitCommon

NextResponses ==
    \/ \E r \in Requests : ServeHTTP(r)
    \/ \E t \in Calls(pTasks) : ProxyStart(t)
    \/ \E t \in Calls(pTasks) : ProxyTask(t)

SpecResponses == InitResponses /\ [][NextResponses]_vars

\* The module cache under concurrent Gets: the bucket holds one module, the
\* local directory is empty.
InitGets ==
    /\ world = "gets"
    /\ remote = Store(Empty, modMakeKey(hashName(N1)), Blob(D1))
    /\ targets = <<>>
    /\ InitCommon

NextGets ==
    \/ \E g \in Getters, name \in {N1, N2} : ModGetOpen(g, name)
    \/ \E g \in Getters : ModGetAcquire(g)
    \/ \E g \in Getters : ModGetAbandon(g)
    \/ \E g \in Getters : ModGetS3(g)
    \/ \E g \in Getters : ModGetStore(g)

SpecGets == InitGets /\ [][NextGets]_vars

\* The goroutines around the Connector: a handler that can go on does, the
\* acceptor keeps calling Accept until the Connector is stopped, and it
\* closes every connection it took.
SpecConnectLive ==
    /\ SpecConnect
    /\ WF_vars(Accept /\ ~connector.stopped)
    /\ \A h \in Handlers :
          /\ WF_vars(Push(h))
          /\ WF_vars(ConnClose(h))
          /\ WF_vars(ConnectReturn(h))

-----------------------------------------------------------------------------

\* The proxy with requests whose copy of the body to the client can be cut
\* short; the memory cache does not age.
InitCut ==
    /\ world = "cut"
    /\ remote = Empty
    /\ targets = TestTargets
    /\ InitCommon

NextCut ==
    \/ \E r \in Requests : ServeHTTP(r)
    \/ \E t \in Calls(pTasks) : ProxyStart(t)
    \/ \E t \in Calls(pTasks) : ProxyTask(t)
    \/ ProxyWipe

SpecCut == InitCut /\ [][NextCut]_vars

-----------------------------------------------------------------------------

-----------------------------------------------------------------------------
(* Properties *)

IsActionKey(k) == k[Len(KeyPrefix) + 1] = "action"
Stage1Done == {"found", "uploaded"}

\* C1 (as amended): when the upload task of a Put(a, o, b) has completed both
\* stages and no Put has named another output id for a, every later Get(a) that
\* meets no failure returns o and a path whose contents are b, from the
\* local stage or, after a wipe, faulted back in from the bucket.
C1_RoundTrip ==
    (ret.op = "Get" /\ ~ret.fault) =>
        \A obj \in ret.after :
            putOuts[obj.ActionID] = {obj.OutputID} =>
                /\ ret.res = "hit"
                /\ ret.out = obj.OutputID
                /\ ret.body = obj.Body

\* C1 as stated: Get(a) returns o and b for every Put(a, o, b) whose upload
\* task has completed.
C1_EveryPut ==
    (ret.op = "Get" /\ ~ret.fault) =>
        \A obj \in ret.after :
            /\ ret.res = "hit"
            /\ ret.out = obj.OutputID
            /\ ret.body = obj.Body

\* A Get after the task completed and the local stage was wiped: the entry
\* is faulted back in from the bucket.
C1_Witness ==
    /\ ret.op = "Get"
    /\ ret.after # {}
    /\ ret.robj = "present"
    /\ ret.res = "hit"
    /\ putOuts[ret.a] = {ret.out}

C3_BlobBeforeRecord ==
    /\ [](\A r \in Calls(puts) : r.tpc = "putact" => r.stage1 \in Stage1Done)
    /\ []((ret.op = "Task" /\ ret.stage1 = "failed") => ~ret.actPut)
    /\ [][\A k \in DOMAIN remote' :
            (IsActionKey(k) /\ (~Has(remote, k) \/ remote'[k] # remote[k])) =>
                \E r \in Calls(puts) :
                    /\ actionKey(r.obj.ActionID) = k
                    /\ r.tpc = "putact"
                    /\ r.stage1 \in Stage1Done
                    /\ Has(remote, outputKey(r.obj.OutputID))]_vars

\* A task has ended at a failed stage 1 and the bucket holds no action record.
C3_Witness ==
    /\ ret.op = "Task"
    /\ ret.stage1 = "failed"
    /\ ret.cause = "fault"
    /\ \A k \in DOMAIN remote : ~IsActionKey(k)

\* C4 (as amended): a Put waiting in s.start has made no call to the bucket
\* and its task has not begun; it goes on to return exactly when fewer
\* tasks than the upload concurrency are running, so with every worker busy
\* it waits until a running task ends.
C4_WaitsOnlyForSlot ==
    \A r \in Calls(puts) :
        r.pc = "start" =>
            /\ r.tpc = "none"
            /\ r.stage1 = "none"
            /\ (ENABLED PutStart(r)) <=> (Active < uploadConcurrency)

\* C4 as stated: a Put that has done its local write can always return, also
\* when every upload worker is busy.
C4_NeverWaits ==
    \A r \in Calls(puts) : r.pc = "start" => ENABLED PutStart(r)

\* A Put waits in s.start while the only worker is at its put of a blob.
C4_Witness ==
    \E r, w \in Calls(puts) :
        /\ r.pc = "start"
        /\ w.tpc = "putobj"
        /\ Active = uploadConcurrency

\* C5: a Get that went to the bucket and found no action record returns a
\* miss, with no output id and no path; a Get whose read of the action
\* record failed otherwise returns an error.
C5_MissOrError ==
    ret.op = "Get" =>
        /\ ret.ract = "absent" =>
              (ret.res = "miss" /\ ret.out = <<>> /\ ret.body = <<>>)
        /\ ret.ract = "fault" => ret.res = "error"

\* A Get has met an absent action record while the bucket holds other keys.
C5_Witness ==
    /\ ret.op = "Get"
    /\ ret.ract = "absent"
    /\ ret.res = "miss"
    /\ remote # Empty

\* The step of a Get call.
GetStep == calls'.get # calls.get

\* C6: a Get that read a well-formed action record and found the blob it
\* names absent returns an error, and the local stage is as it was.
C6_TornIsError ==
    [][(GetStep /\ ret'.robj = "absent") =>
          (ret'.res = "error" /\ UNCHANGED <<localAct, localObj>>)]_vars

\* A Get has met a parsed action record whose blob is absent.
C6_Witness ==
    /\ ret.op = "Get"
    /\ ret.ract = "present"
    /\ ret.robj = "absent"
    /\ ret.res = "error"

Malformed == {OneField, ThreeFields, BadTimestamp}

\* C7: a Get that read an action record of one field, of three fields, or
\* with a timestamp that is no decimal number returns an error, reads no
\* output blob, and the local stage is as it was.
C7_MalformedIsError ==
    [][(GetStep /\ ret'.ract = "present" /\ ret'.record \in Malformed) =>
          /\ ret'.res = "error"
          /\ ret'.robj = "none"
          /\ UNCHANGED <<localAct, localObj>>]_vars

\* A Get has read the record of three fields.
C7_Witness ==
    /\ ret.op = "Get"
    /\ ret.record = ThreeFields
    /\ ret.res = "error"

\* C8: no call of Get or Put and no upload task ends in a panic.
C8_NoPanic == ~Panicked

\* C9 (second Put of an object whose task had completed): when HeadObject
\* answers, the task finds the blob, opens no upload of its bytes, and goes
\* on to the action record.
C9_SecondPutFinds ==
    /\ \A r \in Calls(puts) :
          (r.prior /\ ~r.headFault) =>
              (r.tpc = "putact" /\ r.stage1 = "found" /\ r.file = <<>>)
    /\ (ret.op = "Task" /\ ret.prior /\ ~ret.headFault) =>
          (ret.stage1 = "found" /\ ret.file = <<>>)

\* The task of a second Put of an uploaded object has ended, having found
\* the blob.
C9_Witness ==
    /\ ret.op = "Task"
    /\ ret.prior
    /\ ret.stage1 = "found"
    /\ ret.res = "ok"

\* C10: no upload task ends because the context of the request that called
\* Put was cancelled.
C10_Detached ==
    (ret.op = "Task" /\ ret.cancelled) => ret.cause # "cancel"

C12_NotSurfaced == ret.op = "Close" => ret.res # "error"

\* The step of a Get call and of a Put call.
PutStep == calls'.put # calls.put
ModPath(name) == modMakePath(hashName(name))
ModKey(name) == modMakeKey(hashName(name))

C14_RePut ==
    [][(PutStep /\ world = "module") =>
          /\ (/\ modTasks' = modTasks
              /\ Has(modLocal, ModPath(ret'.name))
              /\ modMetrics'.pathError = modMetrics.pathError) =>
                 /\ ret'.res = "ok"
                 /\ modMetrics'.putLocalHit = modMetrics.putLocalHit + 1
                 /\ modLocal' = modLocal
          /\ modTasks' # modTasks =>
                \E r \in Calls(modTasks') :
                    /\ r.pc = "start"
                    /\ CopiesIn(r, modTasks') = CopiesIn(r, modTasks) + 1
                    /\ ~Has(modLocal, ModPath(r.name))
                    /\ modLocal' = Store(modLocal, ModPath(r.name), r.data)]_vars

\* A second Put for a name whose local file exists has returned.
C14_Witness ==
    /\ ret.op = "ModPut"
    /\ ret.res = "ok"
    /\ ~ret.wrote
    /\ ret.name = N1
    /\ modMetrics.putLocalHit = 1
    /\ calls.put = 2

\* What the documentation of Server.Targets says of one target: a hostname
\* matches exactly, "*.dom" matches dom and every host ending in ".dom".
IsWildcard(s) == HasPrefix(s, <<"*", ".">>)
Documented(s, host) ==
    \/ s = host
    \/ /\ IsWildcard(s)
       /\ LET dom == SubSeq(s, 3, Len(s))
          IN  host = dom \/ HasSuffix(host, <<".">> \o dom)

\* C16: hostMatchesTarget(host, targets) is true exactly when some target
\* equals the host or is "*.dom" with the host dom or ending in ".dom", and
\* the empty host matches no target.
C16_TargetMatch ==
    ret.op = "hostMatchesTarget" =>
        /\ ret.res = (\E i \in DOMAIN targets : Documented(targets[i], ret.host))
        /\ ret.host = <<>> => ~ret.res

\* A step that is a request served by the proxy.
ServeStep == reqs' # reqs
IsTarget(host) == \E i \in DOMAIN targets : Documented(targets[i], host)

\* C15: a request whose host matches no target is answered 502 and nothing
\* else happens: upstream is not contacted, no tier is read or written and
\* no upload is started.
C15_NonTarget ==
    [][ServeStep /\ ~IsTarget(ret'.req.host) =>
          /\ ret'.status = StatusBadGateway
          /\ ret'.trail = <<>>
          /\ ret'.rsp = NoRsp
          /\ UNCHANGED <<pMem, pLocal, remote, pTasks, fetched>>]_vars

C15_Witness ==
    /\ ret.op = "ServeHTTP"
    /\ ret.req.host = HostOther
    /\ ret.status = StatusBadGateway
    /\ pLocal # Empty

\* The requests that take part in the cache: a GET without no-store, to a
\* target.
Eligible == {Req("GET", HostFoo, PathA, <<>>), Req("GET", HostSub, PathB, <<>>)}

\* What the tiers hold for a hash before a request, and can give it.
MemValid(hash) == Has(pMem, hash) /\ ~ULess(pMem[hash].expires, Now)
LocalValid(hash, faults) == Has(pLocal, proxyMakePath(hash)) /\ ~faults.read
RemoteValid(hash, faults) == Has(remote, proxyMakeKey(hash)) /\ ~faults.s3
BodyOf(object) == parseCacheObject(object).body
XCache(r) == hGet(r.header, HXCache)
XCacheId(r) == hGet(r.header, HXCacheId)

\* C17: an eligible request is served from the first of memory, local disk
\* and remote store that holds a valid entry for its fingerprint, marked
\* "hit, memory", "hit, local" or "hit, remote" with X-Cache-Id the first 12
\* characters of the fingerprint; upstream is contacted only when all three
\* miss.
C17_TierOrder ==
    [][ServeStep /\ ret'.req \in Eligible =>
        LET hash == hashRequestURL(ret'.req.url)
            faults == ret'.faults
            hit == ret'.rsp = NoRsp /\ XCacheId(ret') = SubSeq(hash, 1, 12)
        IN IF MemValid(hash)
           THEN /\ hit /\ XCache(ret') = <<"hit, memory">>
                /\ ret'.body = pMem[hash].body
                /\ ret'.trail = <<"memory">>
           ELSE IF LocalValid(hash, faults)
           THEN /\ hit /\ XCache(ret') = <<"hit, local">>
                /\ ret'.body = BodyOf(pLocal[proxyMakePath(hash)])
                /\ ret'.trail = <<"memory", "local">>
           ELSE IF RemoteValid(hash, faults)
           THEN /\ hit /\ XCache(ret') = <<"hit, remote">>
                /\ ret'.body = BodyOf(remote[proxyMakeKey(hash)].data)
                /\ ret'.trail = <<"memory", "local", "remote">>
           ELSE /\ ret'.rsp # NoRsp
                /\ ret'.trail = <<"memory", "local", "remote", "upstream">>]_vars

\* A hit of the local file while the bucket holds the object too.
C17_Witness ==
    /\ ret.op = "ServeHTTP"
    /\ XCache(ret) = <<"hit, local">>
    /\ Has(remote, proxyMakeKey(hashRequestURL(ret.req.url)))

\* The requests to a target that take no part in the cache: one that is not
\* a GET, one whose Cache-Control has no-store.
Ineligible ==
    {Req("POST", HostFoo, PathA, <<>>),
     Req("GET", HostFoo, PathA, <<"no-cache", ",", " ">> \o NoStore)}

\* C18: a request that is not a GET, or that carries no-store, goes to
\* upstream without a read of any tier, and whatever upstream answers the
\* memory cache, the local directory and the bucket stay as they were and
\* no upload is started.
C18_Bypass ==
    [][ServeStep /\ ret'.req \in Ineligible =>
          /\ ret'.trail = <<"upstream">>
          /\ ret'.rsp \in Responses
          /\ ret'.status = ret'.rsp.status /\ ret'.body = ret'.rsp.body
          /\ UNCHANGED <<pMem, pLocal, remote, pTasks>>]_vars

\* A bypassing request answered with a response that a GET would have had
\* stored, with nothing held for its URL.
C18_Witness ==
    /\ ret.op = "ServeHTTP"
    /\ ret.req \in Ineligible
    /\ ret.rsp.status = 200
    /\ Contains(splitCacheControl(ret.rsp.header), Immutable)
    /\ ~Contains(splitCacheControl(ret.rsp.header), NoStore)
    /\ ~Has(pLocal, proxyMakePath(hashRequestURL(ret.req.url)))

\* A response that may be kept on disk and in the bucket.
Durable(rsp) ==
    /\ rsp.status = 200
    /\ Contains(splitCacheControl(rsp.header), Immutable)
    /\ ~Contains(splitCacheControl(rsp.header), NoStore)

\* Upstream gave a durable response with this body for this hash.
Origin(hash, object) ==
    \E f \in fetched : f.hash = hash /\ Durable(f.rsp) /\ BodyOf(object) = f.rsp.body

ProxyHashes == {hashRequestURL(r.url) : r \in Requests}

\* C19: every cache object in the local directory, in the bucket or on its
\* way to the bucket comes from a response of upstream with status 200 and
\* a Cache-Control with immutable and without no-store; a request answered
\* by any other response of upstream writes no file and starts no upload.
C19_DurableOnly ==
    /\ [](world = "proxy" =>
            \A hash \in ProxyHashes :
               /\ Has(pLocal, proxyMakePath(hash))
                     => Origin(hash, pLocal[proxyMakePath(hash)])
               /\ Has(remote, proxyMakeKey(hash))
                     => Origin(hash, remote[proxyMakeKey(hash)].data)
               /\ \A t \in Calls(pTasks) : Origin(t.hash, t.data))
    /\ [][ServeStep /\ ret'.rsp # NoRsp /\ ~Durable(ret'.rsp) =>
             UNCHANGED <<pLocal, pTasks, remote>>]_vars

\* A volatile response is held in memory while an immutable one is on disk
\* and in the bucket.
C19_Witness ==
    /\ pMem # Empty
    /\ pLocal # Empty
    /\ remote # Empty
    /\ DOMAIN pLocal \subseteq {proxyMakePath(h) : h \in ProxyHashes}
    /\ DOMAIN remote \subseteq {proxyMakeKey(h) : h \in ProxyHashes}

\* An upload of the hash is in flight; it has ended in a failure.
Uploading(hash) == \E t \in Calls(pTasks) : t.hash = hash
UploadFailed(hash) == ret.op = "ProxyTask" /\ ret.hash = hash /\ ret.res = "failed"

\* An eligible request that upstream answers with a durable response is
\* marked "fetch, cached" and, unless the write fails, leaves the body in
\* the local file and an upload of the same object to start.
FetchStores ==
    ServeStep /\ ret'.req \in Eligible /\ ret'.rsp # NoRsp /\ Durable(ret'.rsp) =>
        LET hash == hashRequestURL(ret'.req.url)
            path == proxyMakePath(hash)
        IN /\ XCache(ret') = <<"fetch, cached">>
           /\ XCacheId(ret') = SubSeq(hash, 1, 12)
           /\ ret'.body = ret'.rsp.body
           /\ \/ ret'.faults.write /\ UNCHANGED <<pLocal, pTasks>>
              \/ /\ ~ret'.faults.write
                 /\ Has(pLocal', path) /\ BodyOf(pLocal'[path]) = ret'.rsp.body
                 /\ \E t \in Calls(pTasks') :
                       /\ t.hash = hash /\ t.pc = "start"
                       /\ t.data = pLocal'[path]
                       /\ CopiesIn(t, pTasks') = CopiesIn(t, pTasks) + 1

\* The upload ends with the object in the bucket unless the bucket fails it.
UploadEnds ==
    \A hash \in ProxyHashes :
       Uploading(hash) ~> (Has(remote, proxyMakeKey(hash)) \/ UploadFailed(hash))

\* C20 as stated: a durable response to an eligible request is marked
\* "fetch, cached", written to the local file and, the bucket being healthy,
\* to the bucket in the end; and every later request for the URL that can
\* read the local file is answered "hit, local" with the body of the file.
C20_HitLocal ==
    /\ [][/\ FetchStores
          /\ ServeStep /\ ret'.req \in Eligible
                /\ LocalValid(hashRequestURL(ret'.req.url), ret'.faults) =>
                /\ XCache(ret') = <<"hit, local">>
                /\ ret'.body = BodyOf(pLocal[proxyMakePath(hashRequestURL(ret'.req.url))])
         ]_vars
    /\ UploadEnds

\* C20 with the memory tier taken into account: the later request is
\* answered "hit, local" when the memory cache holds no unexpired entry for
\* the URL.
C20_FetchCached ==
    /\ [][/\ FetchStores
          /\ ServeStep /\ ret'.req \in Eligible
                /\ ~MemValid(hashRequestURL(ret'.req.url))
                /\ LocalValid(hashRequestURL(ret'.req.url), ret'.faults) =>
                /\ XCache(ret') = <<"hit, local">>
                /\ ret'.body = BodyOf(pLocal[proxyMakePath(hashRequestURL(ret'.req.url))])
         ]_vars
    /\ UploadEnds

\* The second request for a URL is answered from the local file with the
\* body upstream gave the first, which has reached the bucket as well.
C20_Witness ==
    /\ ret.op = "ServeHTTP"
    /\ reqs = 2
    /\ XCache(ret) = <<"hit, local">>
    /\ ret.body = Body2
    /\ Has(remote, proxyMakeKey(hashRequestURL(ret.req.url)))
    /\ BodyOf(remote[proxyMakeKey(hashRequestURL(ret.req.url))].data) = Body2

\* Responses that carry one max-age token, of the integer n, and neither
\* no-store nor immutable.
MaxAges == {-5, 0, 5, 5000}
OnlyMaxAge(rsp, n) ==
    LET cc == splitCacheControl(rsp.header)
    IN /\ rsp.status = 200
       /\ \A i \in 1..Len(cc) : cc[i] \notin {NoStore, Immutable}
       /\ \E i \in 1..Len(cc) :
             /\ cc[i] = MaxAgeEq \o FormatInt(n)
             /\ \A j \in 1..Len(cc) : HasPrefix(cc[j], MaxAgeEq) => j = i

\* The step stores the response in memory only, for min(n, 3600) seconds.
KeptInMemory(n) ==
    LET hash == hashRequestURL(ret'.req.url)
    IN /\ XCache(ret') = <<"fetch, cached, volatile">>
       /\ Has(pMem', hash)
       /\ pMem'[hash].body = ret'.rsp.body
       /\ pMem'[hash].expires = Add64(Now, Seconds(Int64(IF n < 3600 THEN n ELSE 3600)))
       /\ UNCHANGED <<pLocal, remote, pTasks>>

\* The step stores nothing and marks the response as not cached.
NotKept ==
    /\ XCache(ret') = <<"fetch, uncached">>
    /\ UNCHANGED <<pMem, pLocal, remote, pTasks>>

Fetched == ServeStep /\ ret'.req \in Eligible /\ ret'.rsp # NoRsp

\* C21 as stated: an eligible request whose upstream response has status
\* 200, no no-store, no immutable and a token max-age=N is cached in memory
\* only, for min(N, 3600) seconds, and marked "fetch, cached, volatile", for
\* every integer N, zero included.
C21_Volatile ==
    [][Fetched => \A n \in MaxAges : OnlyMaxAge(ret'.rsp, n) => KeptInMemory(n)]_vars

\* C21, amended: the same for every N of at least 1; with N = 0 the response
\* is not cached and is marked "fetch, uncached".
C21_VolatilePositive ==
    [][Fetched =>
        \A n \in MaxAges :
            OnlyMaxAge(ret'.rsp, n) =>
                /\ n >= 1 => KeptInMemory(n)
                /\ n = 0 => NotKept]_vars

\* A response with max-age=5000 is in memory until 3600 seconds from now.
C21_Witness ==
    /\ ret.op = "ServeHTTP"
    /\ ret.req \in Eligible
    /\ OnlyMaxAge(ret.rsp, 5000)
    /\ XCache(ret) = <<"fetch, cached, volatile">>
    /\ pMem[hashRequestURL(ret.req.url)].expires = Seconds(Int64(3600))

\* C22: whatever max-age values the Cache-Control of the response carried
\* (very large, repeated, not a number), every entry stored in memory expires
\* later than the time of the store and at most 3600 seconds later.
C22_BoundedTTL ==
    [][\A hash \in DOMAIN pMem' :
          (~Has(pMem, hash) \/ pMem'[hash].expires # pMem[hash].expires) =>
              /\ ULess(Now, pMem'[hash].expires)
              /\ ~ULess(Add64(Now, Seconds(Int64(3600))), pMem'[hash].expires)]_vars

\* The memory cache holds an entry for the hash that the clock has passed.
Expired(hash) == Has(pMem, hash) /\ ULess(pMem[hash].expires, Now)

\* C23: an entry of the memory cache is served only while the clock is not
\* past its expiry; the first lookup after the expiry removes the entry and
\* is a miss, and the request goes on to the local directory, the bucket and
\* upstream; nothing but a lookup removes an entry.
C23_Expiry ==
    [][/\ ServeStep /\ ret'.req \in Eligible =>
            LET hash == hashRequestURL(ret'.req.url)
            IN /\ XCache(ret') = <<"hit, memory">> =>
                     /\ Has(pMem, hash) /\ ~Expired(hash)
                     /\ ret'.body = pMem[hash].body
               /\ Expired(hash) =>
                     /\ Len(ret'.trail) >= 2
                     /\ SubSeq(ret'.trail, 1, 2) = <<"memory", "local">>
                     /\ XCache(ret') # <<"hit, memory">>
                     /\ Has(pMem', hash) =>
                           /\ XCache(ret') = <<"fetch, cached, volatile">>
                           /\ pMem'[hash].body = ret'.rsp.body
       /\ ~ServeStep => pMem' = pMem]_vars

\* A response that was in memory has expired, the lookup of a later request
\* has removed it, and upstream has answered that request with a response
\* that goes to disk.
C23_Witness ==
    /\ ret.op = "ServeHTTP"
    /\ ret.req \in Eligible
    /\ XCache(ret) = <<"fetch, cached">>
    /\ ~Has(pMem, hashRequestURL(ret.req.url))
    /\ \E f \in fetched :
          f.hash = hashRequestURL(ret.req.url) /\ canMemoryCache(f.rsp).ok
    /\ now > 3600

\* The values of X-Cache that the proxy documents.
XCacheValues ==
    {<<"hit, memory">>, <<"hit, local">>, <<"hit, remote">>, <<"fetch, cached">>,
     <<"fetch, cached, volatile">>, <<"fetch, uncached">>}

\* C24: every response to a request for a configured target carries an
\* X-Cache header with one of the six documented values, the responses to
\* forwarded requests that take no part in the cache and the responses of a
\* status other than 200 included.
C24_XCacheAlways ==
    ret.op = "ServeHTTP" /\ IsTarget(ret.req.host) => XCache(ret) \in XCacheValues

\* The headers of a response that a cache object is said to preserve.
Preserved(h) ==
    IF hGet(h, HContentType) = <<>>
    THEN hSet(trimCacheHeader(h), HContentType, OctetStream)
    ELSE trimCacheHeader(h)

\* The object parses to the body of a response fetched for the hash and to
\* the headers of that response named by names.
RoundTrip(hash, object, names) ==
    LET p == parseCacheObject(object)
    IN /\ ~p.err
       /\ \E f \in fetched :
             /\ f.hash = hash
             /\ p.body = f.rsp.body
             /\ DOMAIN p.header \subseteq names
             /\ \A name \in names : hGet(p.header, name) = hGet(Preserved(f.rsp.header), name)

\* C25: parsing a stored cache object, local file or remote blob, gives the
\* body of the response byte for byte and exactly the headers Content-Type,
\* Date, Etag and Cache-Control that the response carried (Content-Type is
\* application/octet-stream by default, a missing Date or Etag is left out),
\* whatever the body, empty lines and lines like "Name: Value" included.
C25_RoundTrip ==
    \A hash \in ProxyHashes :
       /\ Has(pLocal, proxyMakePath(hash)) =>
             RoundTrip(hash, pLocal[proxyMakePath(hash)],
                       {HContentType, HDate, HEtag, HCacheControl})
       /\ Has(remote, proxyMakeKey(hash)) =>
             RoundTrip(hash, remote[proxyMakeKey(hash)].data,
                       {HContentType, HDate, HEtag, HCacheControl})

\* The address is one the Connector is configured with.
Known(host) == \E i \in DOMAIN targets : Documented(targets[i], host)

\* The connection of the handler has gone to the accepting side: it is in
\* the queue or Accept has returned it.
InQueue(h) == \E i \in DOMAIN connector.queue : connector.queue[i] = h
HandedOver(h) == InQueue(h) \/ handlers[h].taken > 0

\* Only a CONNECT with an empty path to a configured address is answered
\* 200 and handed over.
OnlyValidHandedOver(h) ==
    LET r == handlers[h].req
    IN /\ HandedOver(h) \/ handlers[h].status = StatusOK =>
             /\ r.method = "CONNECT" /\ r.path = <<>> /\ Known(r.host)
             /\ handlers[h].status = StatusOK
       /\ handlers[h].status = StatusOK => HandedOver(h)

\* C26 as stated: a method other than CONNECT is answered 405, a CONNECT to
\* an address that is not configured 403, a CONNECT on a connection that
\* cannot be hijacked 501; only a CONNECT with an empty path to a configured
\* address is answered 200 and handed to the accepting side.
C26_Statuses ==
    \A h \in Handlers :
        handlers[h].pc # "idle" =>
            LET r == handlers[h].req
            IN /\ r.method # "CONNECT" => handlers[h].status = 405
               /\ r.method = "CONNECT" /\ ~Known(r.host) => handlers[h].status = 403
               /\ r.method = "CONNECT" /\ r.hijack = "none" => handlers[h].status = 501
               /\ OnlyValidHandedOver(h)

\* C26, amended: the checks are made in the order method (405), path (404),
\* hijack support (501), address (403), and the first that fails gives the
\* status; only a CONNECT with an empty path to a configured address is
\* answered 200 and handed to the accepting side.
C26_StatusOrder ==
    \A h \in Handlers :
        handlers[h].pc # "idle" =>
            LET r == handlers[h].req
                valid == r.method = "CONNECT" /\ r.path = <<>>
            IN /\ r.method # "CONNECT" => handlers[h].status = 405
               /\ r.method = "CONNECT" /\ r.path # <<>> => handlers[h].status = 404
               /\ valid /\ r.hijack = "none" => handlers[h].status = 501
               /\ valid /\ r.hijack # "none" /\ ~Known(r.host) => handlers[h].status = 403
               /\ OnlyValidHandedOver(h)

\* One CONNECT was refused for its address while the connection of another
\* went to the accepting side.
C26_Witness ==
    \E h \in Handlers, g \in Handlers :
        /\ handlers[h].status = 403
        /\ ~Known(handlers[h].req.host)
        /\ handlers[g].status = 200
        /\ handlers[g].taken = 1

\* C27: the queue of the Connector holds at most one connection that was
\* pushed and is not yet accepted; a handler leaves push only by putting its
\* connection into the empty queue or, the Connector being stopped, with
\* 503; and the handler of a CONNECT that was answered 200 returns only
\* after the accepting side has closed the connection, which closes done.
C27_OneSlot ==
    /\ [](Len(connector.queue) <= 1)
    /\ [](\A h \in Handlers :
             handlers[h].pc = "returned" /\ handlers[h].status = 200 =>
                 handlers[h].done /\ handlers[h].taken > 0)
    /\ [][\A h \in Handlers :
             /\ handlers[h].pc = "push" /\ handlers'[h].pc # "push" =>
                   \/ /\ connector.queue = <<>>
                      /\ connector'.queue = <<h>>
                      /\ handlers'[h].pc = "wait"
                   \/ /\ connector.stopped
                      /\ handlers'[h].status = 503
                      /\ connector'.queue = connector.queue
             /\ handlers[h].pc = "wait" /\ handlers'[h].pc # "wait" =>
                   handlers[h].done /\ handlers'[h].pc = "returned"
             /\ ~handlers[h].done /\ handlers'[h].done =>
                   handlers[h].taken > 0 /\ ret'.op = "clientConn.Close"]_vars

\* A connection waits in the queue, the handler of a second one waits in
\* push, and the Connector is not stopped.
C27_Witness ==
    /\ ~connector.stopped
    /\ \E h \in Handlers, g \in Handlers :
          /\ connector.queue = <<h>>
          /\ handlers[h].pc = "wait"
          /\ handlers[g].pc = "push"

\* C28: Accept returns only when a connection is in the queue or the
\* Connector is closed; a connection it returns leaves the queue, so that no
\* connection is returned twice; it reports net.ErrClosed only when the
\* Connector is closed, and then returns no connection; the first Close
\* returns nil and every later one net.ErrClosed.
C28_AcceptClose ==
    /\ [](\A h \in Handlers : handlers[h].taken <= 1 /\ (handlers[h].taken = 1 => ~InQueue(h)))
    /\ [][/\ ret'.op = "Accept" =>
               /\ connector.stopped \/ connector.queue # <<>>
               /\ ret'.err = "ErrClosed" =>
                     connector.stopped /\ ret'.conn = 0 /\ UNCHANGED <<connector, handlers>>
               /\ ret'.err # "ErrClosed" =>
                     /\ ret'.err = "nil"
                     /\ connector.queue # <<>>
                     /\ ret'.conn = Head(connector.queue)
                     /\ connector'.queue = Tail(connector.queue)
          /\ ret'.op = "Close" =>
               /\ ret'.err = (IF connector.stopped THEN "ErrClosed" ELSE "nil")
               /\ connector'.stopped
          /\ connector.stopped => connector'.stopped
          /\ ret'.op # "Close" => connector'.stopped = connector.stopped]_vars

\* The Connector was closed with a connection in the queue; the push of a
\* second handler was answered 503 and an Accept still returned the
\* connection.
C28_Witness ==
    /\ connector.stopped
    /\ ret.op = "Accept"
    /\ ret.err = "nil"
    /\ handlers[ret.conn].taken = 1
    /\ \E h \in Handlers : handlers[h].status = 503

\* C29: the ETagReader gives its caller the bytes of the reader it wraps,
\* unchanged and in order; at every point ETag() is the MD5 of exactly the
\* bytes read so far; and once the input is read to its end it is the MD5 of
\* the whole input, the etag that Put hands to the conditional upload.
C29_ETag ==
    /\ [](etr.open =>
            /\ etr.out = SubSeq(etr.input, 1, etr.pos)
            /\ ETag(etr.hash) = S3ETag(etr.out)
            /\ (ret.op = "Read" /\ ret.err = "EOF") => ETag(etr.hash) = S3ETag(etr.input))
    /\ [][ret'.op = "Read" =>
            /\ Len(etr'.out) = Len(etr.out) + ret'.n
            /\ ret'.err = "EOF" <=> etr.pos = Len(etr.input)]_vars

\* An input of four bytes was read to its end in more than one piece.
C29_Witness ==
    /\ etr.open
    /\ Len(etr.input) = 4
    /\ ret.op = "Read"
    /\ ret.err = "EOF"
    /\ etr.out = etr.input

\* C30: a Put whose local write fails returns that error and does nothing to
\* the remote side: it starts no upload task and writes no blob and no
\* action record; every upload task in flight belongs to a Put whose local
\* write succeeded.
C30_LocalErrorStops ==
    /\ [][calls'.put # calls.put /\ ret' # ret /\ ret'.op = "Put" /\ ret'.res = "error" =>
             /\ ~ret'.task
             /\ UNCHANGED <<puts, remote>>]_vars
    /\ [](\A r \in Calls(puts) :
             /\ Has(putOuts, r.obj.ActionID)
             /\ r.obj.OutputID \in putOuts[r.obj.ActionID])

\* A Put of an object large enough to be uploaded has failed in its local
\* write, and nothing is in flight and nothing is in the bucket.
C30_Witness ==
    /\ ret.op = "Put"
    /\ ret.res = "error"
    /\ ret.obj.Size >= MinUploadSize
    /\ puts = EmptyBag
    /\ remote = Empty

\* C31: a Put of an object below MinUploadSize writes the local stage only:
\* it starts no upload task, the bucket stays as it was and putSkipSmall,
\* and no other counter, goes up by one; a Put of an object of at least
\* MinUploadSize whose local write succeeded always hands a task to s.start.
C31_SkipSmall ==
    /\ [](\A r \in Calls(puts) : r.obj.Size >= MinUploadSize)
    /\ [][calls'.put # calls.put =>
            \E obj \in Objects(world) :
               \/ /\ ret' = PutRet(obj, "error", FALSE)
                  /\ UNCHANGED <<puts, remote, metrics>>
               \/ /\ obj.Size < MinUploadSize
                  /\ ret' = PutRet(obj, "ok", FALSE)
                  /\ Has(localObj', obj.OutputID) /\ localObj'[obj.OutputID].body = obj.Body
                  /\ Has(localAct', obj.ActionID) /\ localAct'[obj.ActionID].out = obj.OutputID
                  /\ metrics' = [metrics EXCEPT !.putSkipSmall = @ + 1]
                  /\ UNCHANGED <<puts, remote>>
               \/ /\ obj.Size >= MinUploadSize
                  /\ Has(localObj', obj.OutputID) /\ localObj'[obj.OutputID].body = obj.Body
                  /\ \E r \in Calls(puts') :
                        /\ r.obj = obj /\ r.pc = "start" /\ r.tpc = "none"
                        /\ puts' = Called(puts, r)
                  /\ UNCHANGED <<remote, metrics, ret>>]_vars

\* A Put of an empty object has returned with the object in the local stage
\* and putSkipSmall at one, while the upload of a larger object is in flight.
C31_Witness ==
    /\ ret.op = "Put"
    /\ ret.res = "ok"
    /\ ~ret.task
    /\ ret.obj.Size < MinUploadSize
    /\ Has(localObj, ret.obj.OutputID)
    /\ metrics.putSkipSmall = 1
    /\ \E r \in Calls(puts) : r.obj.Size >= MinUploadSize

\* The names of the counters that the step has raised by one or more.
Raised == {n \in DOMAIN pMetrics : pMetrics'[n] # pMetrics[n]}
RaisedByOne(n) == pMetrics'[n] = pMetrics[n] + 1

\* The client has the whole response of upstream: status, headers and body.
WholeResponse(r) ==
    /\ r.status = r.rsp.status
    /\ r.body = r.rsp.body
    /\ \A name \in DOMAIN r.rsp.header : hGet(r.header, name) = r.rsp.header[name]

\* C32: when the write of an immutable response to the local directory
\* fails, no upload is started for the response, the bucket and the local
\* directory stay as they were, rspSaveError goes up by one, and the client
\* still has the whole response of upstream.
C32_SaveError ==
    [][Fetched /\ Durable(ret'.rsp) /\ ret'.faults.write =>
          /\ UNCHANGED <<pTasks, remote, pLocal>>
          /\ RaisedByOne("rspSaveError")
          /\ "rspSave" \notin Raised
          /\ WholeResponse(ret')]_vars

\* An immutable response was fetched and its local write failed: the error
\* is counted, no file and no upload exist, the client has the body.
C32_Witness ==
    /\ ret.op = "ServeHTTP"
    /\ ret.req \in Eligible
    /\ ret.rsp # NoRsp
    /\ Durable(ret.rsp)
    /\ ret.faults.write
    /\ pMetrics.rspSaveError = 1
    /\ pTasks = EmptyBag
    /\ ~Has(pLocal, proxyMakePath(hashRequestURL(ret.req.url)))
    /\ ret.body = ret.rsp.body

\* C33: a request answered from the bucket writes the object to the local
\* directory before it answers; if that write fails the request is still
\* answered "hit, remote", with the body of the object; after a write that
\* succeeded the next request for the same URL, the file not deleted in
\* between and readable, is answered "hit, local" with the same body.
C33_Repopulate ==
    /\ [][ServeStep /\ XCache(ret') = <<"hit, remote">> =>
            LET hash == hashRequestURL(ret'.req.url)
            IN /\ ret'.status = 200
               /\ ret'.body = BodyOf(remote[proxyMakeKey(hash)].data)
               /\ ret'.rsp = NoRsp
               /\ IF ret'.faults.write THEN pLocal' = pLocal
                  ELSE /\ Has(pLocal', proxyMakePath(hash))
                       /\ BodyOf(pLocal'[proxyMakePath(hash)]) = ret'.body]_vars
    /\ [][/\ ServeStep
          /\ ret.op = "ServeHTTP" /\ XCache(ret) = <<"hit, remote">> /\ ~ret.faults.write
          /\ ret'.req = ret.req
          /\ Has(pLocal, proxyMakePath(hashRequestURL(ret.req.url)))
          /\ ~ret'.faults.read
          => /\ XCache(ret') = <<"hit, local">>
             /\ ret'.body = ret.body]_vars

\* Three requests: a fetch that was stored and uploaded, a hit in the bucket
\* after the file was lost or could not be read, and a hit in the local
\* directory.
C33_Witness ==
    /\ ret.op = "ServeHTTP"
    /\ XCache(ret) = <<"hit, local">>
    /\ reqs = 3
    /\ pMetrics.rspSave = 1
    /\ pMetrics.reqFaultHit = 1
    /\ pMetrics.reqLocalHit = 1

Holders == {g \in Getters : gets[g].pc \in {"fetch", "store"}}

\* C35: in the module cache the slots held are those of the Gets between
\* Acquire and their return, at most as many as the task limit; a Get holds
\* one only after it missed the local file; and a Get that returned, by
\* whatever path, holds none, so that with every Get returned all slots are
\* free.
C35_Semaphore ==
    /\ sema = Cardinality(Holders)
    /\ sema <= modMaxTasks
    /\ \A g \in Holders : gets[g].rlocal \in {"absent", "fault"}
    /\ (\A g \in Getters : gets[g].pc \in {"idle", "done"}) => sema = 0

\* Every slot is held by a Get that has the object and is about to store it,
\* a second Get waits in Acquire after its miss, and a third has returned
\* the error of the bucket and holds nothing.
C35_Witness ==
    /\ sema = modMaxTasks
    /\ \E g, w, d \in Getters :
         /\ gets[g].pc = "store"
         /\ gets[w].pc = "acquire"
         /\ gets[d].pc = "done" /\ gets[d].rremote = "fault"

\* How stage 1 of the task r ends in a step: HeadObject matched and nothing
\* is uploaded, PutCond wrote the blob and returned nil, or it failed.
FoundMatching(r) ==
    \E q \in Calls(puts') : q.stage1 = "found" /\ puts' = Stepped(puts, r, q)
BlobWritten(r) ==
    \E q \in Calls(puts') : q.stage1 = "uploaded" /\ puts' = Stepped(puts, r, q)
StageFailed(r) ==
    /\ puts' = Ended(puts, r)
    /\ ret'.op = "Task" /\ ret'.obj = r.obj /\ ret'.stage1 = "failed"
InStage1(r) == r.stage1 = "none" /\ r.tpc \in {"head", "putobj"}

\* C36: stage 1 of an upload task raises put_s3_found, and nothing else, when
\* the bucket already held the blob with a matching etag; put_s3_object, and
\* nothing else, when it wrote the blob; put_s3_error, and nothing else, when
\* it failed; and these three counters change in no other step.
C36_Counters ==
    [][/\ \A r \in Calls(puts) :
             InStage1(r) =>
                /\ FoundMatching(r) => metrics' = Count("putS3Found")
                /\ BlobWritten(r) => metrics' = Count("putS3Object")
                /\ StageFailed(r) => metrics' = Count("putS3Error")
       /\ (\E n \in {"putS3Found", "putS3Object", "putS3Error"} : metrics'[n] # metrics[n])
             => \E r \in Calls(puts) :
                    InStage1(r) /\ (FoundMatching(r) \/ BlobWritten(r) \/ StageFailed(r))]_vars

\* What a forwarded request did with the response: a file in the local
\* directory and an upload task for it, an entry in the memory cache, or
\* nothing.
StoredDurable(hash) ==
    /\ BagCardinality(pTasks') = BagCardinality(pTasks) + 1
    /\ Has(pLocal', proxyMakePath(hash))
    /\ BodyOf(pLocal'[proxyMakePath(hash)]) = ret'.rsp.body
    /\ ~Has(pMem', hash)
StoredVolatile(hash) ==
    /\ Has(pMem', hash) /\ pMem' # pMem
    /\ pMem'[hash].body = ret'.rsp.body
    /\ pLocal' = pLocal /\ pTasks' = pTasks
NotStored(hash) ==
    /\ pLocal' = pLocal /\ pTasks' = pTasks
    /\ pMem' = pMem \/ ~Has(pMem', hash)

ReqCounters == {"reqMemoryHit", "reqLocalHit", "reqFaultHit", "reqForward"}
RspCounters == {"rspSave", "rspSaveMem", "rspSaveError", "rspNotCached"}

\* C37: a request to a target either is served from a cache tier, upstream
\* not contacted and nothing stored, or is forwarded, and then its response
\* is stored durably, stored in memory or not stored, one of the three, with
\* at most one store per tier and at most one upload task; exactly one of
\* reqMemoryHit, reqLocalHit, reqFaultHit and reqForward goes up, by one.
C37_OneOutcome ==
    [][ServeStep /\ IsTarget(ret'.req.host) =>
          LET hash == hashRequestURL(ret'.req.url)
          IN /\ Cardinality(Raised \cap ReqCounters) = 1
             /\ \A n \in Raised : RaisedByOne(n)
             /\ Cardinality(Raised \cap RspCounters) <= 1
             /\ IF "reqForward" \in Raised
                THEN /\ ret'.rsp # NoRsp
                     /\ XCache(ret') \notin {<<"hit, memory">>, <<"hit, local">>,
                                             <<"hit, remote">>}
                     /\ \/ StoredDurable(hash) /\ Raised \cap RspCounters = {"rspSave"}
                        \/ StoredVolatile(hash) /\ Raised \cap RspCounters = {"rspSaveMem"}
                        \/ NotStored(hash) /\ Raised \cap RspCounters \subseteq
                                                 {"rspSaveError", "rspNotCached"}
                ELSE /\ ret'.rsp = NoRsp
                     /\ XCache(ret') \in {<<"hit, memory">>, <<"hit, local">>,
                                          <<"hit, remote">>}
                     /\ Raised \cap RspCounters = {}
                     /\ pTasks' = pTasks]_vars

\* Three requests were forwarded: one response went to the local directory
\* and the bucket, one to the memory cache, one was not stored.
C37_Witness ==
    /\ ret.op = "ServeHTTP"
    /\ pMetrics.reqForward = 3
    /\ pMetrics.rspSave = 1
    /\ pMetrics.rspSaveMem = 1
    /\ pMetrics.rspNotCached = 1

\* C38: a request served from the memory cache leaves the memory cache as it
\* found it: the entry it hit, header included, is the one that was stored.
C38_HitReadsOnly ==
    [][ServeStep /\ XCache(ret') = <<"hit, memory">> => pMem' = pMem]_vars

\* C39: once the Connector is closed, a handler that waits for the done
\* channel of its connection eventually returns, whether Accept took the
\* connection or left it in the queue.
C39_HandlersReturn ==
    \A h \in Handlers :
        (handlers[h].pc = "wait" /\ connector.stopped) ~> handlers[h].pc = "returned"

\* Upstream gave, for this hash, a response with exactly this body.
WholeBody(hash, body) == \E f \in fetched : f.hash = hash /\ f.rsp.body = body

\* C40: every body held in the memory cache, in the local directory or in
\* the bucket, and every body an upload task carries, is the whole body of a
\* response upstream gave for that URL; and a request whose copy of the body
\* was cut short stores nothing in any tier and starts no upload.
C40_WholeBodies ==
    /\ [](\A f \in fetched :
            /\ Has(pMem, f.hash) => WholeBody(f.hash, pMem[f.hash].body)
            /\ Has(pLocal, proxyMakePath(f.hash)) =>
                  WholeBody(f.hash, BodyOf(pLocal[proxyMakePath(f.hash)]))
            /\ Has(remote, proxyMakeKey(f.hash)) =>
                  WholeBody(f.hash, BodyOf(remote[proxyMakeKey(f.hash)].data))
            /\ \A t \in Calls(pTasks) : WholeBody(t.hash, BodyOf(t.data)))
    /\ [](/\ DOMAIN pMem \subseteq {f.hash : f \in fetched}
          /\ DOMAIN pLocal \subseteq {proxyMakePath(f.hash) : f \in fetched}
          /\ DOMAIN remote \subseteq {proxyMakeKey(f.hash) : f \in fetched})
    /\ [][ServeStep /\ ret'.faults.cut =>
            /\ pLocal' = pLocal
            /\ pTasks' = pTasks
            /\ pMem' = pMem \/ ~Has(pMem', hashRequestURL(ret'.req.url))
            /\ Raised \cap {"rspSave", "rspSaveMem", "rspSaveError"} = {}]_vars

\* The copy of an immutable response was cut short before its end: the
\* client has less than the body, and the local directory and the bucket
\* hold nothing.
C40_Witness ==
    /\ ret.op = "ServeHTTP"
    /\ ret.faults.cut
    /\ Durable(ret.rsp)
    /\ Len(ret.body) < Len(ret.rsp.body)
    /\ XCache(ret) = <<"fetch, cached">>
    /\ pLocal = Empty /\ remote = Empty /\ pTasks = EmptyBag

==============================================================================
